---- MODULE Spec2Model ----
(***************************************************************************)
(* A model of the BlackSwan oracle service (src/src/index.js).  The file   *)
(* holds two variants of BlackSwanOracleService:                           *)
(*   - the content-publishing service (lines 58-904): every update pins    *)
(*     both analysis documents to IPFS and calls updateScoresAndAnalysis;  *)
(*   - the score-only service (lines 1006-1550): every update calls one of *)
(*     updateBothScores / updateBlackSwanScore / updateMarketPeakScore.    *)
(* One behaviour of the model runs one of the two (svc).  A cycle is one   *)
(* invocation of checkAndUpdateScores; each action below is one           *)
(* uninterrupted run of JavaScript between two awaits, together with the   *)
(* answer of the external system (analytics API, IPFS, chain) it resumes   *)
(* on.                                                                     *)
(*                                                                         *)
(* Encoding of JavaScript values: a score read from the API is a number of *)
(* halves (3 stands for 1.5, -1 for -0.5), so that Math.floor has          *)
(* something to do; null, NaN and undefined are the reserved integers      *)
(* below; every time stamp (new Date()) is the one value Date, as no       *)
(* decision reads a time; an IPFS reference is a positive integer, fresh   *)
(* for every upload.                                                       *)
(***************************************************************************)
EXTENDS Integers, Sequences, FiniteSets, TLC

\* Bounds of the model.
MaxScore == 1
MaxCycles == 3
MaxInFlight == 2
MaxAddress == 3

\* JavaScript's null, NaN and undefined.
null == -1000
NaN == -999
undefined == -998
\* The contract's initial (empty) string.
EmptyString == 0
\* new Date()
Date == 1

VARIABLES
    svc,                        \* "content" or "score": which service runs
    apiScores,                  \* the scores the analytics API can carry
    connPc,                     \* initializeBlockchainConnection: "checking",
                                \* "ok", "failed" ("unconstructed" before the
                                \* constructor has run)
    served,                     \* the last answer of the status server
    env,                        \* process.env: the settings read at startup
    oracle,                     \* the BlackSwanOracle contract: its storage,
                                \* owner and pause flag
    receipt,                    \* the outcome of the last call on the contract
    replayed,                   \* the scores and references an observer gets
                                \* by replaying the events emitted so far
    lastHttp,                   \* the last answer of POST /update
    lastKnownBlackSwanScore,
    lastKnownMarketPeakScore,
    lastKnownBlackSwanIPFS,
    lastKnownMarketPeakIPFS,
    isRunning,
    intervalId,                 \* TRUE while the polling timer is live
    strayTimers,                \* live timers this.intervalId no longer names
    httpServer,                 \* "none", "listening", "closing", "closed"
    serviceStatus,
    startPc,                    \* position of start(): "idle", "initial", "done"
    stopPc,                     \* position of stop(): "idle", "closing", "done"
    exited,                     \* process.exit was called
    cycles,                     \* the invocations of checkAndUpdateScores, by id
    nextCycle,                  \* id of the next invocation
    pending,                    \* the oracle calls sent and not yet settled
    txOptions,                  \* the options each of them was sent with
    chain,                      \* the oracle contract's storage
    lastScores,                 \* the integer scores the last fetch logged
    lastLog,                    \* outcome logged by the cycle that returned last
    lastFailure                 \* the failed oracle call no success has followed

cacheVars == <<lastKnownBlackSwanScore, lastKnownMarketPeakScore,
               lastKnownBlackSwanIPFS, lastKnownMarketPeakIPFS>>

lifeVars == <<isRunning, intervalId, strayTimers, httpServer, startPc, stopPc,
             exited>>

logVars == <<lastScores, lastLog, lastFailure>>

\* The contract as callers other than the service see it.
contractVars == <<oracle, receipt, replayed>>

\* What no cycle writes: the service variant, the API's range, the startup
\* connectivity check, the answers of the status server, the settings and the
\* contract under other callers.
envVars == <<svc, apiScores, connPc, served, env, contractVars>>

vars == <<svc, apiScores, connPc, served, env, contractVars,
          lastHttp,
          lastKnownBlackSwanScore, lastKnownMarketPeakScore,
          lastKnownBlackSwanIPFS, lastKnownMarketPeakIPFS, isRunning,
          intervalId, strayTimers, httpServer, serviceStatus, startPc, stopPc,
          exited,
          cycles, nextCycle, pending, txOptions, chain, lastScores,
          lastLog, lastFailure>>

----------------------------------------------------------------------------
\* The analytics API.

\* The scores a healthy API carries, counted in halves: 0, 0.5, 1, ...
\* MaxScore + 0.5.
ApiScores == 0 .. (2 * MaxScore + 1)

ApiDown == [up |-> FALSE, blackswan |-> undefined, marketPeak |-> undefined]

ResponsesOver(raw) ==
    {ApiDown} \cup
    {[up |-> TRUE, blackswan |-> b, marketPeak |-> m] : b, m \in raw}

\* What a faulty API can carry besides: a missing field, a score that is no
\* number, the score -1.
FaultyScores == {undefined, NaN, -2}

\* The API is unreachable or answers with two of the scores it can carry.
Responses == ResponsesOver(apiScores)

\* Math.floor of a value read from the API.
MathFloor(v) == IF v \in {NaN, undefined} THEN NaN ELSE v \div 2

\* typeof v === "number" && !isNaN(v) && v >= 0
IsValidScore(v) == v # NaN /\ v # undefined /\ v >= 0

\* fetchScoresFromAPI (score-only service) throws.
FetchScoresThrows(resp) ==
    \/ ~resp.up
    \/ resp.blackswan = undefined
    \/ resp.marketPeak = undefined
    \/ ~IsValidScore(resp.blackswan)
    \/ ~IsValidScore(resp.marketPeak)

\* fetchAnalysisFromAPI (content-publishing service) throws: only when the
\* blackswan or marketPeak object is missing; the scores are not looked at.
FetchAnalysisThrows(resp) ==
    \/ ~resp.up
    \/ resp.blackswan = undefined
    \/ resp.marketPeak = undefined

FetchThrows(s, resp) ==
    IF s = "score" THEN FetchScoresThrows(resp) ELSE FetchAnalysisThrows(resp)

\* The integer scores a cycle works with after a fetch that did not throw.
FetchedBlackSwan(resp) == MathFloor(resp.blackswan)
FetchedMarketPeak(resp) == MathFloor(resp.marketPeak)

\* What a fetch logs: the two integer scores, or nothing when it throws.
NoScores == [ok |-> FALSE, blackswanScore |-> null, marketPeakScore |-> null]

ScoresLogged(s, resp) ==
    IF FetchThrows(s, resp) THEN NoScores
    ELSE [ok |-> TRUE, blackswanScore |-> FetchedBlackSwan(resp),
          marketPeakScore |-> FetchedMarketPeak(resp)]

----------------------------------------------------------------------------
\* The decision of a cycle.

IsFirstRun(bs, mp) == bs = null \/ mp = null

\* A comparison that also reports a score equal to the cached one as
\* changed: C4 does not hold of a service that compares this way.
ChangedOrEqual(score, lastKnown) == score >= lastKnown

\* A comparison that reports a change only while the service is healthy:
\* C21 does not hold of a service whose decision reads ServiceStatus.
ChangedWhenHealthy(score, lastKnown) ==
    /\ serviceStatus.isHealthy
    /\ score = NaN \/ lastKnown = NaN \/ score # lastKnown

\* score !== lastKnown (NaN differs from everything, itself included)
Changed(score, lastKnown) == score = NaN \/ lastKnown = NaN \/ score # lastKnown

\* An update type that never is "both": C7 does not hold of a service that
\* picks the update type this way.
UpdateTypeOfFirstChanged(blackswanChanged, marketPeakChanged) ==
    IF blackswanChanged THEN "blackswan" ELSE "marketpeak"

UpdateTypeOf(blackswanChanged, marketPeakChanged) ==
    IF blackswanChanged /\ marketPeakChanged THEN "both"
    ELSE IF blackswanChanged THEN "blackswan"
    ELSE "marketpeak"

\* A dispatch that calls updateBothScores whatever the update type: C5 does
\* not hold of a service that dispatches this way.
ScoreOnlyCallBoth(c, bs, mp, updateType) ==
    [cycle |-> c,
     fn |-> "updateBothScores",
     blackswanScore |-> bs,
     marketPeakScore |-> mp,
     blackSwanIPFS |-> null,
     marketPeakIPFS |-> null]

\* The contract call updateOracleScores makes for an update type.
ScoreOnlyCall(c, bs, mp, updateType) ==
    [cycle |-> c,
     fn |-> CASE updateType = "both" -> "updateBothScores"
              [] updateType = "blackswan" -> "updateBlackSwanScore"
              [] OTHER -> "updateMarketPeakScore",
     blackswanScore |-> IF updateType = "marketpeak" THEN null ELSE bs,
     marketPeakScore |-> IF updateType = "blackswan" THEN null ELSE mp,
     blackSwanIPFS |-> null,
     marketPeakIPFS |-> null]

\* A call that updates the BlackSwan score alone: the amended C6 does not
\* hold of a content-publishing service that calls this way.
ContentCallBlackSwanOnly(c, bs, mp, bsRef, mpRef) ==
    [cycle |-> c,
     fn |-> "updateBlackSwanScore",
     blackswanScore |-> bs,
     marketPeakScore |-> null,
     blackSwanIPFS |-> null,
     marketPeakIPFS |-> null]

\* A call that sends the cached MarketPeak reference in place of the fresh
\* one: C15 does not hold of a content-publishing service that calls this
\* way.
ContentCallStaleMarketPeakRef(c, bs, mp, bsRef, mpRef) ==
    [cycle |-> c,
     fn |-> "updateScoresAndAnalysis",
     blackswanScore |-> bs,
     marketPeakScore |-> mp,
     blackSwanIPFS |-> bsRef,
     marketPeakIPFS |-> lastKnownMarketPeakIPFS]

\* The contract call updateOracleScoresAndAnalysis makes.
ContentCall(c, bs, mp, bsRef, mpRef) ==
    [cycle |-> c,
     fn |-> "updateScoresAndAnalysis",
     blackswanScore |-> bs,
     marketPeakScore |-> mp,
     blackSwanIPFS |-> bsRef,
     marketPeakIPFS |-> mpRef]

\* ethers encodes a uint256 argument: a non-negative integer, or it throws.
IsUint(v) == v # NaN /\ v # undefined /\ v # null /\ v >= 0

CallEncodes(call) ==
    /\ call.blackswanScore # null => IsUint(call.blackswanScore)
    /\ call.marketPeakScore # null => IsUint(call.marketPeakScore)

----------------------------------------------------------------------------
\* The oracle contract's storage after a call that did not revert.
ContractApply(st, call) ==
    CASE call.fn = "updateBlackSwanScore" ->
           [st EXCEPT !.blackSwanScore = call.blackswanScore]
      [] call.fn = "updateMarketPeakScore" ->
           [st EXCEPT !.marketPeakScore = call.marketPeakScore]
      [] call.fn = "updateBothScores" ->
           [st EXCEPT !.blackSwanScore = call.blackswanScore,
                      !.marketPeakScore = call.marketPeakScore]
      [] OTHER ->
           [st EXCEPT !.blackSwanScore = call.blackswanScore,
                      !.marketPeakScore = call.marketPeakScore,
                      !.blackSwanAnalysisIPFS = call.blackSwanIPFS,
                      !.marketPeakAnalysisIPFS = call.marketPeakIPFS]

----------------------------------------------------------------------------
\* serviceStatus after the outcomes of a cycle.

\* A success branch that records the time and leaves updateCount as it is:
\* C38 does not hold of a service that accounts for a confirmed
\* transaction this way.
StatusOnSuccessUncounted(st) ==
    [st EXCEPT !.lastSuccessfulUpdate = Date, !.isHealthy = TRUE]

\* The success branch of "if (success)".

StatusOnSuccess(st) ==
    [st EXCEPT !.lastSuccessfulUpdate = Date,
               !.updateCount = @ + 1,
               !.isHealthy = TRUE]

\* The else branch of "if (success)" in the steady state.
StatusOnTxFailure(st) ==
    [st EXCEPT !.errorCount = @ + 1, !.isHealthy = FALSE]

\* The first-run branch of the content-publishing service has no else.
StatusOnFirstRunTxFailure(st) == st

\* A catch block that counts the error and records no lastError: C12 does
\* not hold of a service that handles a failed fetch this way.
StatusOnCatchNoLastError(st, message) ==
    [st EXCEPT !.errorCount = @ + 1, !.isHealthy = FALSE]

\* A catch block that leaves isHealthy as it is: C14 does not hold of a
\* service that handles a failed upload this way.
StatusOnCatchStaysHealthy(st, message) ==
    [st EXCEPT !.errorCount = @ + 1,
               !.lastError = <<[message |-> message, timestamp |-> Date]>>]

\* The catch block of checkAndUpdateScores.
StatusOnCatch(st, message) ==
    [st EXCEPT !.errorCount = @ + 1,
               !.lastError = <<[message |-> message, timestamp |-> Date]>>,
               !.isHealthy = FALSE]

----------------------------------------------------------------------------
\* The BlackSwanOracle contract (IBlackSwanOracle.sol), called by any
\* address.  A function is an operator from the contract's state, the
\* caller and the arguments to the outcome of the call.

\* address(0)
ZeroAddress == 0

Addresses == 0 .. MaxAddress

\* msg.sender: any address that can sign.
Callers == Addresses \ {ZeroAddress}

\* The uint256 and string arguments callers pass.
Uint256s == 0 .. MaxScore
IpfsHashes == {EmptyString, 1}

\* initialize(initialOwner)
initialize(initialOwner) ==
    [owner |-> initialOwner,
     paused |-> FALSE,
     blackSwanScore |-> 0,
     marketPeakScore |-> 0,
     blackSwanAnalysisIPFS |-> EmptyString,
     marketPeakAnalysisIPFS |-> EmptyString,
     devWallets |-> [w \in Addresses |-> FALSE],
     devWalletList |-> <<>>]

\* The outcome of a call: a revert leaves the state and emits nothing.
Reverted(st) == [ok |-> FALSE, st |-> st, events |-> <<>>]
Succeeded(st, events) == [ok |-> TRUE, st |-> st, events |-> events]

\* modifier onlyOwnerOrDev
onlyOwnerOrDev(st, sender) == sender = st.owner \/ st.devWallets[sender]

\* OwnableUpgradeable: modifier onlyOwner
onlyOwner(st, sender) == sender = st.owner

\* PausableUpgradeable: modifier whenNotPaused
whenNotPaused(st) == ~st.paused

updateBlackSwanScore(st, sender, newScore) ==
    IF onlyOwnerOrDev(st, sender) /\ whenNotPaused(st)
    THEN Succeeded([st EXCEPT !.blackSwanScore = newScore],
                   <<[name |-> "BlackSwanScoreUpdated",
                      newScore |-> newScore, updatedBy |-> sender]>>)
    ELSE Reverted(st)

updateMarketPeakScore(st, sender, newScore) ==
    IF onlyOwnerOrDev(st, sender) /\ whenNotPaused(st)
    THEN Succeeded([st EXCEPT !.marketPeakScore = newScore],
                   <<[name |-> "MarketPeakScoreUpdated",
                      newScore |-> newScore, updatedBy |-> sender]>>)
    ELSE Reverted(st)

updateBothScores(st, sender, newBlackSwanScore, newMarketPeakScore) ==
    IF onlyOwnerOrDev(st, sender) /\ whenNotPaused(st)
    THEN Succeeded([st EXCEPT !.blackSwanScore = newBlackSwanScore,
                              !.marketPeakScore = newMarketPeakScore],
                   <<[name |-> "BothScoresUpdated",
                      newBlackSwanScore |-> newBlackSwanScore,
                      newMarketPeakScore |-> newMarketPeakScore,
                      updatedBy |-> sender]>>)
    ELSE Reverted(st)

\* A removal that clears the membership flag and leaves the list as it is:
\* C24 does not hold of a contract that removes this way.
removeDevWalletFlagOnly(st, sender, wallet) ==
    IF onlyOwner(st, sender) /\ st.devWallets[wallet]
    THEN Succeeded([st EXCEPT !.devWallets[wallet] = FALSE],
                   <<[name |-> "DevWalletRemoved", wallet |-> wallet]>>)
    ELSE Reverted(st)

\* An addDevWallet any caller may use: C22 does not hold of a contract
\* that adds this way.
addDevWalletByAnyone(st, sender, wallet) ==
    IF wallet # ZeroAddress /\ ~st.devWallets[wallet]
    THEN Succeeded([st EXCEPT !.devWallets[wallet] = TRUE,
                              !.devWalletList = Append(@, wallet)],
                   <<[name |-> "DevWalletAdded", wallet |-> wallet]>>)
    ELSE Reverted(st)

addDevWallet(st, sender, wallet) ==
    IF /\ onlyOwner(st, sender)
       /\ wallet # ZeroAddress
       /\ ~st.devWallets[wallet]
    THEN Succeeded([st EXCEPT !.devWallets[wallet] = TRUE,
                              !.devWalletList = Append(@, wallet)],
                   <<[name |-> "DevWalletAdded", wallet |-> wallet]>>)
    ELSE Reverted(st)

\* The loop of removeDevWallet: the last element is copied over the first
\* occurrence of wallet and the list is popped.
SwapAndPop(list, wallet) ==
    LET found == {i \in 1 .. Len(list) : list[i] = wallet}
    IN  IF found = {} THEN list
        ELSE LET i == CHOOSE j \in found : \A k \in found : j <= k
             IN  SubSeq([list EXCEPT ![i] = list[Len(list)]],
                        1, Len(list) - 1)

removeDevWallet(st, sender, wallet) ==
    IF onlyOwner(st, sender) /\ st.devWallets[wallet]
    THEN Succeeded([st EXCEPT !.devWallets[wallet] = FALSE,
                              !.devWalletList = SwapAndPop(@, wallet)],
                   <<[name |-> "DevWalletRemoved", wallet |-> wallet]>>)
    ELSE Reverted(st)

getDevWalletCount(st) == Len(st.devWalletList)

\* getDevWalletByIndex, indices from 0: reverts out of bounds.
getDevWalletByIndex(st, index) ==
    IF index < Len(st.devWalletList)
    THEN [ok |-> TRUE, value |-> st.devWalletList[index + 1]]
    ELSE [ok |-> FALSE, value |-> ZeroAddress]

isDevWallet(st, wallet) == st.devWallets[wallet]

updateBlackSwanAnalysisIPFS(st, sender, ipfsHash) ==
    IF onlyOwnerOrDev(st, sender) /\ whenNotPaused(st)
    THEN Succeeded([st EXCEPT !.blackSwanAnalysisIPFS = ipfsHash],
                   <<[name |-> "BlackSwanAnalysisIPFSUpdated",
                      ipfsHash |-> ipfsHash, updatedBy |-> sender]>>)
    ELSE Reverted(st)

updateMarketPeakAnalysisIPFS(st, sender, ipfsHash) ==
    IF onlyOwnerOrDev(st, sender) /\ whenNotPaused(st)
    THEN Succeeded([st EXCEPT !.marketPeakAnalysisIPFS = ipfsHash],
                   <<[name |-> "MarketPeakAnalysisIPFSUpdated",
                      ipfsHash |-> ipfsHash, updatedBy |-> sender]>>)
    ELSE Reverted(st)

updateBothAnalysisIPFS(st, sender, blackSwanIPFS, marketPeakIPFS) ==
    IF onlyOwnerOrDev(st, sender) /\ whenNotPaused(st)
    THEN Succeeded([st EXCEPT !.blackSwanAnalysisIPFS = blackSwanIPFS,
                              !.marketPeakAnalysisIPFS = marketPeakIPFS],
                   <<[name |-> "BothAnalysisIPFSUpdated",
                      blackSwanIPFS |-> blackSwanIPFS,
                      marketPeakIPFS |-> marketPeakIPFS,
                      updatedBy |-> sender]>>)
    ELSE Reverted(st)

\* An updateScoresAndAnalysis that emits the score event alone: C25 does
\* not hold of a contract that emits this way.
updateScoresAndAnalysisOneEvent(st, sender, newBlackSwanScore, newMarketPeakScore, blackSwanIPFS, marketPeakIPFS) ==
    IF onlyOwnerOrDev(st, sender) /\ whenNotPaused(st)
    THEN Succeeded([st EXCEPT !.blackSwanScore = newBlackSwanScore,
                              !.marketPeakScore = newMarketPeakScore,
                              !.blackSwanAnalysisIPFS = blackSwanIPFS,
                              !.marketPeakAnalysisIPFS = marketPeakIPFS],
                   <<[name |-> "BothScoresUpdated",
                      newBlackSwanScore |-> newBlackSwanScore,
                      newMarketPeakScore |-> newMarketPeakScore,
                      updatedBy |-> sender]>>)
    ELSE Reverted(st)

updateScoresAndAnalysis(st, sender, newBlackSwanScore, newMarketPeakScore, blackSwanIPFS, marketPeakIPFS) ==
    IF onlyOwnerOrDev(st, sender) /\ whenNotPaused(st)
    THEN Succeeded([st EXCEPT !.blackSwanScore = newBlackSwanScore,
                              !.marketPeakScore = newMarketPeakScore,
                              !.blackSwanAnalysisIPFS = blackSwanIPFS,
                              !.marketPeakAnalysisIPFS = marketPeakIPFS],
                   <<[name |-> "BothScoresUpdated",
                      newBlackSwanScore |-> newBlackSwanScore,
                      newMarketPeakScore |-> newMarketPeakScore,
                      updatedBy |-> sender],
                     [name |-> "BothAnalysisIPFSUpdated",
                      blackSwanIPFS |-> blackSwanIPFS,
                      marketPeakIPFS |-> marketPeakIPFS,
                      updatedBy |-> sender]>>)
    ELSE Reverted(st)

getAllData(st) ==
    <<st.blackSwanScore, st.marketPeakScore,
      st.blackSwanAnalysisIPFS, st.marketPeakAnalysisIPFS>>

\* pause(): onlyOwner, and PausableUpgradeable._pause is whenNotPaused.
pause(st, sender) ==
    IF onlyOwner(st, sender) /\ whenNotPaused(st)
    THEN Succeeded([st EXCEPT !.paused = TRUE],
                   <<[name |-> "Paused", account |-> sender]>>)
    ELSE Reverted(st)

\* unpause(): onlyOwner, and PausableUpgradeable._unpause is whenPaused.
unpause(st, sender) ==
    IF onlyOwner(st, sender) /\ st.paused
    THEN Succeeded([st EXCEPT !.paused = FALSE],
                   <<[name |-> "Unpaused", account |-> sender]>>)
    ELSE Reverted(st)

\* What an observer makes of one event: the score and reference events
\* carry new values, the others none.
ReplayEvent(view, e) ==
    CASE e.name = "BlackSwanScoreUpdated" ->
           [view EXCEPT !.blackSwanScore = e.newScore]
      [] e.name = "MarketPeakScoreUpdated" ->
           [view EXCEPT !.marketPeakScore = e.newScore]
      [] e.name = "BothScoresUpdated" ->
           [view EXCEPT !.blackSwanScore = e.newBlackSwanScore,
                        !.marketPeakScore = e.newMarketPeakScore]
      [] e.name = "BlackSwanAnalysisIPFSUpdated" ->
           [view EXCEPT !.blackSwanAnalysisIPFS = e.ipfsHash]
      [] e.name = "MarketPeakAnalysisIPFSUpdated" ->
           [view EXCEPT !.marketPeakAnalysisIPFS = e.ipfsHash]
      [] e.name = "BothAnalysisIPFSUpdated" ->
           [view EXCEPT !.blackSwanAnalysisIPFS = e.blackSwanIPFS,
                        !.marketPeakAnalysisIPFS = e.marketPeakIPFS]
      [] OTHER -> view

RECURSIVE Replay(_, _)
Replay(view, events) ==
    IF events = <<>> THEN view
    ELSE Replay(ReplayEvent(view, Head(events)), Tail(events))

\* The initial state the observer replays over.
NothingReplayed ==
    [blackSwanScore |-> 0, marketPeakScore |-> 0,
     blackSwanAnalysisIPFS |-> EmptyString,
     marketPeakAnalysisIPFS |-> EmptyString]

----------------------------------------------------------------------------
\* process.env.
Settings ==
    {"RPC_URL", "DEV_WALLET_PRIVATE_KEY", "ORACLE_CONTRACT_ADDRESS",
     "API_ENDPOINT", "PINATA_API_KEY", "PINATA_SECRET_API_KEY"}

\* A setting is absent (or empty), present and malformed (a private key
\* that is not 64 hex characters, an address ethers.isAddress rejects, an
\* endpoint that is no URL), or well formed.
SettingValues(name) ==
    IF name \in {"PINATA_API_KEY", "PINATA_SECRET_API_KEY"}
    THEN {"absent", "ok"}
    ELSE {"absent", "malformed", "ok"}

Environments == {e \in [Settings -> {"absent", "malformed", "ok"}] :
                    \A name \in Settings : e[name] \in SettingValues(name)}

CompleteEnvironment == [name \in Settings |-> "ok"]

\* requiredVars of validateEnvironmentVariables.
RequiredVars(s) ==
    IF s = "content"
    THEN {"RPC_URL", "DEV_WALLET_PRIVATE_KEY", "ORACLE_CONTRACT_ADDRESS",
          "API_ENDPOINT", "PINATA_API_KEY", "PINATA_SECRET_API_KEY"}
    ELSE {"RPC_URL", "DEV_WALLET_PRIVATE_KEY", "ORACLE_CONTRACT_ADDRESS",
          "API_ENDPOINT"}

\* validateEnvironmentVariables returns (it does not call process.exit).
EnvironmentValid(s, e) ==
    /\ \A name \in RequiredVars(s) : e[name] # "absent"
    /\ e["ORACLE_CONTRACT_ADDRESS"] = "ok"
    /\ e["DEV_WALLET_PRIVATE_KEY"] = "ok"

\* The optional settings that shape a transaction, and the values they are
\* given here: absent, or a decimal numeral.
GasSettings ==
    {"GAS_LIMIT", "MAX_FEE_PER_GAS_GWEI", "MAX_PRIORITY_FEE_PER_GAS_GWEI",
     "GAS_PRICE_GWEI"}

GasValues(name) ==
    CASE name = "GAS_LIMIT" -> {"absent", "150000"}
      [] name = "MAX_FEE_PER_GAS_GWEI" -> {"absent", "0", "2"}
      [] name = "MAX_PRIORITY_FEE_PER_GAS_GWEI" -> {"absent", "1"}
      [] OTHER -> {"absent", "2"}

GasEnvironments ==
    {g \in [GasSettings -> {"absent", "0", "1", "2", "150000"}] :
        \A name \in GasSettings : g[name] \in GasValues(name)}

\* process.env[name] is truthy: the setting is there and not empty.
IsSet(e, name) == name \in DOMAIN e /\ e[name] # "absent"

\* parseInt of a decimal numeral.
parseInt(s) ==
    CASE s = "0" -> 0
      [] s = "1" -> 1
      [] s = "2" -> 2
      [] OTHER -> 150000

\* ethers.parseUnits(s, "gwei"): the amount in wei.
parseUnits(s) == parseInt(s) * 1000000000

\* A BigInt is truthy unless it is 0n; a property never assigned is
\* undefined.
IsTruthy(v) == v # undefined /\ v # 0

\* txOptions as updateOracleScores and updateOracleScoresAndAnalysis build
\* it, the two differing in the default gas limit.  A property that is not
\* assigned is undefined.
TxOptionsWith(e, defaultGasLimit) ==
    LET maxFeePerGas == IF IsSet(e, "MAX_FEE_PER_GAS_GWEI")
                        THEN parseUnits(e["MAX_FEE_PER_GAS_GWEI"])
                        ELSE undefined
    IN  [gasLimit |-> IF IsSet(e, "GAS_LIMIT") THEN parseInt(e["GAS_LIMIT"])
                      ELSE defaultGasLimit,
         maxFeePerGas |-> maxFeePerGas,
         maxPriorityFeePerGas |->
             IF IsSet(e, "MAX_PRIORITY_FEE_PER_GAS_GWEI")
             THEN parseUnits(e["MAX_PRIORITY_FEE_PER_GAS_GWEI"])
             ELSE undefined,
         gasPrice |-> IF IsSet(e, "GAS_PRICE_GWEI") /\ ~IsTruthy(maxFeePerGas)
                      THEN parseUnits(e["GAS_PRICE_GWEI"])
                      ELSE undefined]

\* The options of updateOracleScores (the score-only service).
ScoreOnlyTxOptions(e) == TxOptionsWith(e, 100000)

\* The options of updateOracleScoresAndAnalysis.
ContentTxOptions(e) == TxOptionsWith(e, 200000)

\* The options of the calls sent, with those of one more call.
WithOptionsOf(call, options) ==
    [t \in pending \cup {call} |->
        IF t \in pending THEN txOptions[t] ELSE options]

----------------------------------------------------------------------------
\* State after the constructor.

\* A cycle's position (pc): "new" before it is invoked; "fetch", "pin1",
\* "pin2", "tx" name the await it is suspended at (the fetch, the two
\* uploads, the transaction); "done" once it has returned.  The other fields
\* are the locals of checkAndUpdateScores.
NewCycle ==
    [origin |-> "none", pc |-> "new", firstRun |-> FALSE,
     blackswanScore |-> null, marketPeakScore |-> null,
     blackswanChanged |-> FALSE, marketPeakChanged |-> FALSE,
     updateType |-> "none",
     blackSwanIPFS |-> null, marketPeakIPFS |-> null]

InitWith(scores) ==
    /\ svc \in {"content", "score"}
    /\ apiScores = scores
    /\ connPc = "checking"
    /\ served = <<>>
    /\ env = CompleteEnvironment
    /\ oracle = initialize(1)
    /\ receipt = <<>>
    /\ replayed = NothingReplayed
    /\ lastHttp = <<>>
    /\ lastKnownBlackSwanScore = null
    /\ lastKnownMarketPeakScore = null
    /\ lastKnownBlackSwanIPFS = null
    /\ lastKnownMarketPeakIPFS = null
    /\ isRunning = FALSE
    /\ intervalId = FALSE
    /\ strayTimers = 0
    /\ httpServer = "none"
    /\ serviceStatus = [status |-> "starting", uptime |-> 0,
                        startTime |-> Date, lastUpdate |-> null,
                        lastSuccessfulUpdate |-> null, updateCount |-> 0,
                        errorCount |-> 0, lastError |-> <<>>,
                        isHealthy |-> FALSE]
    /\ startPc = "idle"
    /\ stopPc = "idle"
    /\ exited = FALSE
    /\ cycles = [c \in 1 .. MaxCycles |-> NewCycle]
    /\ nextCycle = 1
    /\ pending = {}
    /\ txOptions = <<>>
    /\ chain = [blackSwanScore |-> 0, marketPeakScore |-> 0,
                blackSwanAnalysisIPFS |-> EmptyString,
                marketPeakAnalysisIPFS |-> EmptyString]
    /\ lastScores = NoScores
    /\ lastLog = "none"
    /\ lastFailure = <<>>

\* The service against a healthy API.
Init == InitWith(ApiScores)


Cycles == 1 .. MaxCycles

InFlight == {c \in Cycles : cycles[c].pc \notin {"new", "done"}}

Returned == [NewCycle EXCEPT !.pc = "done"]

\* The call cycle c has sent and awaits.
TxOf(c) == CHOOSE t \in pending : t.cycle = c

\* The references IPFS returns for the documents cycle c uploads.
BlackSwanRef(c) == 2 * c - 1
MarketPeakRef(c) == 2 * c

----------------------------------------------------------------------------
\* start(), the polling timer, POST /update, stop().

\* The synchronous head of checkAndUpdateScores, run by its caller: it
\* records lastUpdate and suspends on the fetch.
Invoke(st, origin) ==
    /\ nextCycle <= MaxCycles
    /\ Cardinality(InFlight) < MaxInFlight
    /\ cycles' = [cycles EXCEPT ![nextCycle] =
                     [NewCycle EXCEPT !.origin = origin, !.pc = "fetch"]]
    /\ nextCycle' = nextCycle + 1
    /\ serviceStatus' = [st EXCEPT !.lastUpdate = Date]

\* start() up to its await of the initial check.
Start ==
    /\ ~exited
    /\ startPc = "idle"
    /\ ~isRunning
    /\ isRunning' = TRUE
    /\ httpServer' = "listening"
    /\ startPc' = "initial"
    /\ Invoke([serviceStatus EXCEPT !.status = "running", !.isHealthy = TRUE],
              "start")
    /\ UNCHANGED <<envVars, cacheVars, intervalId, strayTimers, stopPc, exited, pending, txOptions,
                   chain, logVars, lastHttp>>

\* start() after the initial check (the first cycle) has returned:
\* setInterval.
StartResume ==
    /\ ~exited
    /\ startPc = "initial"
    /\ cycles[1].pc = "done"
    /\ intervalId' = TRUE
    /\ strayTimers' = strayTimers
    /\ startPc' = "done"
    /\ UNCHANGED <<envVars, cacheVars, isRunning, httpServer, serviceStatus,
                   stopPc, exited, cycles, nextCycle, pending, txOptions, chain, logVars,
                   lastHttp>>

\* The setInterval callback: a cycle if the service is running.
TimerTick ==
    /\ ~exited
    /\ intervalId
    /\ IF isRunning
       THEN Invoke(serviceStatus, "timer")
       ELSE UNCHANGED <<serviceStatus, cycles, nextCycle>>
    /\ UNCHANGED <<envVars, cacheVars, lifeVars, pending, txOptions, chain, logVars,
                   lastHttp>>

\* POST /update: the handler awaits a cycle.
ManualUpdate ==
    /\ ~exited
    /\ httpServer = "listening"
    /\ Invoke(serviceStatus, "manual")
    /\ UNCHANGED <<envVars, cacheVars, lifeVars, pending, txOptions, chain, logVars,
                   lastHttp>>

\* SIGINT or SIGTERM: stop() up to its await of httpServer.close.
Signal ==
    /\ ~exited
    /\ stopPc = "idle"
    /\ isRunning
    /\ isRunning' = FALSE
    /\ serviceStatus' = [serviceStatus EXCEPT !.status = "stopping"]
    /\ intervalId' = FALSE
    /\ strayTimers' = strayTimers
    /\ httpServer' = "closing"
    /\ stopPc' = "closing"
    /\ UNCHANGED <<envVars, cacheVars, startPc, exited, cycles, nextCycle,
                   pending, txOptions, chain, logVars, lastHttp>>

\* The server has closed (its requests have been answered): stop() finishes
\* and the signal handler calls process.exit(0).
StopClosed ==
    /\ ~exited
    /\ stopPc = "closing"
    /\ \A c \in InFlight : cycles[c].origin # "manual"
    /\ httpServer' = "closed"
    /\ serviceStatus' = [serviceStatus EXCEPT !.status = "stopped",
                                              !.isHealthy = FALSE]
    /\ stopPc' = "done"
    /\ exited' = TRUE
    /\ UNCHANGED <<envVars, cacheVars, isRunning, intervalId, strayTimers, startPc,
                   cycles,
                   nextCycle, pending, txOptions, chain, logVars, lastHttp>>

\* The service used through its methods (the class is the module's export):
\* start() and stop() are called at any point, and stop() returns to its
\* caller.  At most one call of start() and one of stop() are suspended at
\* a time.

\* start() is called: it returns at once when the service is running, and
\* otherwise runs up to its await of the initial check.
CallStart ==
    /\ ~exited
    /\ IF isRunning
       THEN UNCHANGED vars
       ELSE /\ startPc # "initial"
            /\ isRunning' = TRUE
            /\ httpServer' = "listening"
            /\ startPc' = "initial"
            /\ Invoke([serviceStatus EXCEPT !.status = "running",
                                            !.isHealthy = TRUE], "start")
            /\ UNCHANGED <<envVars, cacheVars, intervalId, strayTimers,
                           stopPc, exited, pending, txOptions, chain,
                           logVars, lastHttp>>

\* start() after its initial check has returned: setInterval.  The new
\* handle replaces the one in this.intervalId, whose timer, if live, goes
\* on firing.
StartReturns ==
    /\ ~exited
    /\ startPc = "initial"
    /\ \A c \in InFlight : cycles[c].origin # "start"
    /\ intervalId' = TRUE
    /\ strayTimers' = IF intervalId THEN strayTimers + 1 ELSE strayTimers
    /\ startPc' = "done"
    /\ UNCHANGED <<envVars, cacheVars, isRunning, httpServer, serviceStatus,
                   stopPc, exited, cycles, nextCycle, pending, txOptions,
                   chain, logVars, lastHttp>>

\* stop() is called: it returns at once when the service is not running,
\* and otherwise runs up to its await of httpServer.close.
CallStop ==
    /\ ~exited
    /\ IF ~isRunning
       THEN UNCHANGED vars
       ELSE /\ stopPc # "closing"
            /\ isRunning' = FALSE
            /\ serviceStatus' = [serviceStatus EXCEPT !.status = "stopping"]
            /\ intervalId' = FALSE
            /\ httpServer' = "closing"
            /\ stopPc' = "closing"
            /\ UNCHANGED <<envVars, cacheVars, strayTimers, startPc, exited,
                           cycles, nextCycle, pending, txOptions, chain,
                           logVars, lastHttp>>

\* The server has closed: stop() finishes and returns to its caller.
StopReturns ==
    /\ ~exited
    /\ stopPc = "closing"
    /\ \A c \in InFlight : cycles[c].origin # "manual"
    /\ httpServer' = IF httpServer = "closing" THEN "closed" ELSE httpServer
    /\ serviceStatus' = [serviceStatus EXCEPT !.status = "stopped",
                                              !.isHealthy = FALSE]
    /\ stopPc' = "done"
    /\ UNCHANGED <<envVars, cacheVars, isRunning, intervalId, strayTimers,
                   startPc, exited, cycles, nextCycle, pending, txOptions,
                   chain, logVars, lastHttp>>

\* A callback that starts a cycle whether or not the service is running:
\* C35 does not hold of a timer that fires this way.
LiveTimerTickUnguarded ==
    /\ ~exited
    /\ intervalId \/ strayTimers > 0
    /\ Invoke(serviceStatus, "timer")
    /\ UNCHANGED <<envVars, cacheVars, lifeVars, pending, txOptions, chain,
                   logVars, lastHttp>>

\* The setInterval callback of any live timer, the one this.intervalId
\* names or one it no longer names.
LiveTimerTick ==
    /\ ~exited
    /\ intervalId \/ strayTimers > 0
    /\ IF isRunning
       THEN Invoke(serviceStatus, "timer")
       ELSE UNCHANGED <<serviceStatus, cycles, nextCycle>>
    /\ UNCHANGED <<envVars, cacheVars, lifeVars, pending, txOptions, chain,
                   logVars, lastHttp>>

\* main: new BlackSwanOracleService().  The constructor validates the
\* settings first: validateEnvironmentVariables calls process.exit(1), or
\* returns and the constructor goes on to the state Init describes.
Construct ==
    /\ ~exited
    /\ connPc = "unconstructed"
    /\ IF EnvironmentValid(svc, env)
       THEN connPc' = "checking" /\ exited' = exited
       ELSE connPc' = connPc /\ exited' = TRUE
    /\ UNCHANGED <<svc, apiScores, env, contractVars, served,
                   lastHttp,
                   cacheVars, isRunning, intervalId, strayTimers, httpServer, startPc,
                   stopPc, serviceStatus, cycles, nextCycle, pending, txOptions, chain,
                   logVars>>

\* initializeBlockchainConnection, which the constructor calls and does not
\* await: the network and the balance are read.
ConnectOk ==
    /\ ~exited
    /\ connPc = "checking"
    /\ connPc' = "ok"
    /\ UNCHANGED <<svc, apiScores, env, contractVars, served,
                   lastHttp,
                   cacheVars, lifeVars, serviceStatus, cycles, nextCycle,
                   pending, txOptions, chain, logVars>>

\* initializeBlockchainConnection catches an error: process.exit(1).
ConnectFails ==
    /\ ~exited
    /\ connPc = "checking"
    /\ connPc' = "failed"
    /\ exited' = TRUE
    /\ UNCHANGED <<svc, apiScores, env, contractVars, served,
                   lastHttp,
                   cacheVars, isRunning, intervalId, strayTimers, httpServer, startPc,
                   stopPc, serviceStatus, cycles, nextCycle, pending, txOptions, chain,
                   logVars>>

\* The seconds since startTime a handler computes: none yet, or some.
Elapsed == {0, 1}

\* An answer with status 200 whatever isHealthy is: C20 does not hold of
\* a handler that answers this way.
HealthResponseAlways200(st) ==
    [route |-> "/health",
     code |-> 200,
     status |-> st.status,
     healthy |-> st.isHealthy,
     uptime |-> st.uptime,
     startTime |-> st.startTime,
     lastUpdate |-> st.lastUpdate,
     lastSuccessfulUpdate |-> st.lastSuccessfulUpdate,
     updateCount |-> st.updateCount,
     errorCount |-> st.errorCount,
     lastError |-> st.lastError]

\* The body and the HTTP status GET /health answers with.
HealthResponse(st) ==
    [route |-> "/health",
     code |-> IF st.isHealthy THEN 200 ELSE 503,
     status |-> st.status,
     healthy |-> st.isHealthy,
     uptime |-> st.uptime,
     startTime |-> st.startTime,
     lastUpdate |-> st.lastUpdate,
     lastSuccessfulUpdate |-> st.lastSuccessfulUpdate,
     updateCount |-> st.updateCount,
     errorCount |-> st.errorCount,
     lastError |-> st.lastError]

\* GET /health: the handler stores the uptime and answers.
GetHealth ==
    /\ ~exited
    /\ httpServer \in {"listening", "closing"}
    /\ \E t \in Elapsed :
          /\ t >= serviceStatus.uptime
          /\ serviceStatus' = [serviceStatus EXCEPT !.uptime = t]
    /\ served' = <<HealthResponse(serviceStatus')>>
    /\ UNCHANGED <<svc, apiScores, env, contractVars, connPc, lastHttp,
                   cacheVars, lifeVars, cycles, nextCycle, pending, txOptions, chain,
                   logVars>>

\* The answer of GET /status, as far as it is taken from the cache and the
\* uptime: currentScores and ipfsHashes.  midCycle is not part of the body:
\* it records whether a cycle was suspended when the answer was sent.
StatusResponse(st) ==
    [route |-> "/status",
     midCycle |-> InFlight # {},
     uptime |-> st.uptime,
     blackswanScore |-> lastKnownBlackSwanScore,
     marketPeakScore |-> lastKnownMarketPeakScore,
     blackswanIPFS |-> lastKnownBlackSwanIPFS,
     marketPeakIPFS |-> lastKnownMarketPeakIPFS]

\* GET /status: the handler stores the uptime and answers.
GetStatus ==
    /\ ~exited
    /\ httpServer \in {"listening", "closing"}
    /\ \E t \in Elapsed :
          /\ t >= serviceStatus.uptime
          /\ serviceStatus' = [serviceStatus EXCEPT !.uptime = t]
    /\ served' = <<StatusResponse(serviceStatus')>>
    /\ UNCHANGED <<svc, apiScores, env, contractVars, connPc, lastHttp,
                   cacheVars, lifeVars, cycles, nextCycle, pending, txOptions,
                   chain, logVars>>

\* The answer of GET /scores, as far as it is taken from the cache.
ScoresResponse ==
    [route |-> "/scores",
     midCycle |-> InFlight # {},
     blackswanScore |-> lastKnownBlackSwanScore,
     marketPeakScore |-> lastKnownMarketPeakScore,
     blackswanIPFS |-> lastKnownBlackSwanIPFS,
     marketPeakIPFS |-> lastKnownMarketPeakIPFS]

\* GET /scores.
GetScores ==
    /\ ~exited
    /\ httpServer \in {"listening", "closing"}
    /\ served' = <<ScoresResponse>>
    /\ UNCHANGED <<svc, apiScores, env, contractVars, connPc, lastHttp,
                   cacheVars, lifeVars, serviceStatus, cycles,
                   nextCycle, pending, txOptions, chain, logVars>>

\* GET /.
GetRoot ==
    /\ ~exited
    /\ httpServer \in {"listening", "closing"}
    /\ served' = <<[route |-> "/", status |-> serviceStatus.status,
                    healthy |-> serviceStatus.isHealthy]>>
    /\ UNCHANGED <<svc, apiScores, env, contractVars, connPc, lastHttp,
                   cacheVars, lifeVars, serviceStatus, cycles,
                   nextCycle, pending, txOptions, chain, logVars>>

----------------------------------------------------------------------------
\* Calls on the contract by any address, one action per function.

\* What a call on the contract by another address leaves alone.
serviceVars == <<svc, apiScores, connPc, served, env, lastHttp,
                 cacheVars,
                 lifeVars, serviceStatus, cycles, nextCycle, pending,
                 txOptions, chain, logVars>>

\* A transaction with outcome r is mined: the state is r.st, the events are
\* emitted and the observer replays them.
Transact(fn, sender, r) ==
    /\ oracle' = r.st
    /\ receipt' = <<[fn |-> fn, sender |-> sender, ok |-> r.ok,
                     events |-> r.events]>>
    /\ replayed' = Replay(replayed, r.events)
    /\ UNCHANGED serviceVars

CallUpdateBlackSwanScore ==
    \E sender \in Callers, newScore \in Uint256s :
       Transact("updateBlackSwanScore", sender,
                updateBlackSwanScore(oracle, sender, newScore))

CallUpdateMarketPeakScore ==
    \E sender \in Callers, newScore \in Uint256s :
       Transact("updateMarketPeakScore", sender,
                updateMarketPeakScore(oracle, sender, newScore))

CallUpdateBothScores ==
    \E sender \in Callers, bs, mp \in Uint256s :
       Transact("updateBothScores", sender,
                updateBothScores(oracle, sender, bs, mp))

CallUpdateBlackSwanAnalysisIPFS ==
    \E sender \in Callers, ipfsHash \in IpfsHashes :
       Transact("updateBlackSwanAnalysisIPFS", sender,
                updateBlackSwanAnalysisIPFS(oracle, sender, ipfsHash))

CallUpdateMarketPeakAnalysisIPFS ==
    \E sender \in Callers, ipfsHash \in IpfsHashes :
       Transact("updateMarketPeakAnalysisIPFS", sender,
                updateMarketPeakAnalysisIPFS(oracle, sender, ipfsHash))

CallUpdateBothAnalysisIPFS ==
    \E sender \in Callers, bsRef, mpRef \in IpfsHashes :
       Transact("updateBothAnalysisIPFS", sender,
                updateBothAnalysisIPFS(oracle, sender, bsRef, mpRef))

CallUpdateScoresAndAnalysis ==
    \E sender \in Callers, bs, mp \in Uint256s, bsRef, mpRef \in IpfsHashes :
       Transact("updateScoresAndAnalysis", sender,
                updateScoresAndAnalysis(oracle, sender, bs, mp, bsRef, mpRef))

CallAddDevWallet ==
    \E sender \in Callers, wallet \in Addresses :
       Transact("addDevWallet", sender,
                addDevWallet(oracle, sender, wallet))

CallRemoveDevWallet ==
    \E sender \in Callers, wallet \in Addresses :
       Transact("removeDevWallet", sender,
                removeDevWallet(oracle, sender, wallet))

CallPause ==
    \E sender \in Callers :
       Transact("pause", sender, pause(oracle, sender))

CallUnpause ==
    \E sender \in Callers :
       Transact("unpause", sender, unpause(oracle, sender))

\* A view function is called: nothing is stored and nothing emitted; the
\* call returns (ok) or reverts.
View(fn, sender, ok) ==
    /\ receipt' = <<[fn |-> fn, sender |-> sender, ok |-> ok,
                     events |-> <<>>]>>
    /\ UNCHANGED <<oracle, replayed, serviceVars>>

CallGetAllData ==
    \E sender \in Callers :
       View("getAllData", sender, TRUE)

CallIsDevWallet ==
    \E sender \in Callers, wallet \in Addresses :
       View("isDevWallet", sender, isDevWallet(oracle, wallet) \in BOOLEAN)

CallGetDevWalletCount ==
    \E sender \in Callers :
       View("getDevWalletCount", sender, getDevWalletCount(oracle) \in Nat)

CallGetDevWalletByIndex ==
    \E sender \in Callers, index \in 0 .. MaxAddress :
       View("getDevWalletByIndex", sender,
            getDevWalletByIndex(oracle, index).ok)

CallPaused ==
    \E sender \in Callers :
       View("paused", sender, oracle.paused \in BOOLEAN)

----------------------------------------------------------------------------
\* checkAndUpdateScores, one action per continuation.  A continuation after
\* the fetch resumes on the answer resp of the analytics API.

Suspended(c, pc) == ~exited /\ c \in Cycles /\ cycles[c].pc = pc

\* The answer of the POST /update handler: its try block after the await,
\* and its catch block.
UpdateResponse(threw) ==
    IF threw THEN <<[code |-> 500, success |-> FALSE]>>
             ELSE <<[code |-> 200, success |-> TRUE]>>

\* checkAndUpdateScores returns (it has caught whatever was thrown); the
\* POST /update handler that awaited it answers.
Return(c) ==
    /\ cycles' = [cycles EXCEPT ![c] = Returned]
    /\ lastHttp' = IF cycles[c].origin = "manual"
                   THEN UpdateResponse(FALSE)
                   ELSE lastHttp

\* The catch block: the fetch or an upload threw.
Catch(c, message) ==
    /\ serviceStatus' = StatusOnCatch(serviceStatus, message)
    /\ Return(c)
    /\ lastLog' = "error"
    /\ UNCHANGED <<envVars, cacheVars, lifeVars, nextCycle, pending, txOptions, chain,
                   lastFailure>>

\* The fetch throws: the API is unreachable or its answer is rejected.
FetchFails(c) ==
    /\ Suspended(c, "fetch")
    /\ \E resp \in Responses :
          /\ FetchThrows(svc, resp)
          /\ lastScores' = ScoresLogged(svc, resp)
    /\ Catch(c, "fetch")

\* A first run that caches the BlackSwan score alone: C37 does not hold of
\* a service that seeds its cache this way.
FirstRunSeedBlackSwanOnly(c) ==
    /\ Suspended(c, "fetch")
    /\ svc = "score"
    /\ IsFirstRun(lastKnownBlackSwanScore, lastKnownMarketPeakScore)
    /\ \E resp \in Responses :
          /\ ~FetchThrows(svc, resp)
          /\ lastScores' = ScoresLogged(svc, resp)
          /\ lastKnownBlackSwanScore' = FetchedBlackSwan(resp)
    /\ Return(c)
    /\ lastLog' = "seeded"
    /\ UNCHANGED <<envVars, lastKnownMarketPeakScore, lastKnownBlackSwanIPFS,
                   lastKnownMarketPeakIPFS, lifeVars, serviceStatus,
                   nextCycle, pending, txOptions, chain, lastFailure>>

\* Score-only service, first run: the fetched scores are cached and the
\* cycle returns.
FirstRunSeed(c) ==
    /\ Suspended(c, "fetch")
    /\ svc = "score"
    /\ IsFirstRun(lastKnownBlackSwanScore, lastKnownMarketPeakScore)
    /\ \E resp \in Responses :
          /\ ~FetchThrows(svc, resp)
          /\ lastScores' = ScoresLogged(svc, resp)
          /\ lastKnownBlackSwanScore' = FetchedBlackSwan(resp)
          /\ lastKnownMarketPeakScore' = FetchedMarketPeak(resp)
    /\ Return(c)
    /\ lastLog' = "seeded"
    /\ UNCHANGED <<envVars, lastKnownBlackSwanIPFS, lastKnownMarketPeakIPFS,
                   lifeVars, serviceStatus, nextCycle, pending, txOptions, chain,
                   lastFailure>>

\* Content-publishing service, first run: the first upload is started.
FirstRunPublish(c) ==
    /\ Suspended(c, "fetch")
    /\ svc = "content"
    /\ IsFirstRun(lastKnownBlackSwanScore, lastKnownMarketPeakScore)
    /\ \E resp \in Responses :
          /\ ~FetchThrows(svc, resp)
          /\ lastScores' = ScoresLogged(svc, resp)
          /\ cycles' = [cycles EXCEPT
                          ![c].pc = "pin1",
                          ![c].firstRun = TRUE,
                          ![c].blackswanScore = FetchedBlackSwan(resp),
                          ![c].marketPeakScore = FetchedMarketPeak(resp)]
    /\ UNCHANGED <<envVars, cacheVars, lifeVars, serviceStatus, nextCycle,
                   pending, txOptions, chain, lastLog, lastFailure, lastHttp>>

\* A no-change branch that reports the service healthy again: C33 does not
\* hold of a cycle that returns this way.
NoChangeRestoresHealth(c) ==
    /\ Suspended(c, "fetch")
    /\ ~IsFirstRun(lastKnownBlackSwanScore, lastKnownMarketPeakScore)
    /\ \E resp \in Responses :
          /\ ~FetchThrows(svc, resp)
          /\ ~Changed(FetchedBlackSwan(resp), lastKnownBlackSwanScore)
          /\ ~Changed(FetchedMarketPeak(resp), lastKnownMarketPeakScore)
          /\ lastScores' = ScoresLogged(svc, resp)
    /\ Return(c)
    /\ lastLog' = "nochange"
    /\ serviceStatus' = [serviceStatus EXCEPT !.isHealthy = TRUE]
    /\ UNCHANGED <<envVars, cacheVars, lifeVars, nextCycle,
                   pending, txOptions, chain, lastFailure>>

\* Steady state, neither score changed: the cycle returns.
NoChange(c) ==
    /\ Suspended(c, "fetch")
    /\ ~IsFirstRun(lastKnownBlackSwanScore, lastKnownMarketPeakScore)
    /\ \E resp \in Responses :
          /\ ~FetchThrows(svc, resp)
          /\ ~Changed(FetchedBlackSwan(resp), lastKnownBlackSwanScore)
          /\ ~Changed(FetchedMarketPeak(resp), lastKnownMarketPeakScore)
          /\ lastScores' = ScoresLogged(svc, resp)
    /\ Return(c)
    /\ lastLog' = "nochange"
    /\ UNCHANGED <<envVars, cacheVars, lifeVars, serviceStatus, nextCycle,
                   pending, txOptions, chain, lastFailure>>

\* Score-only service, steady state, a score changed: updateOracleScores is
\* called with the update type and sends the transaction.
ScoreUpdate(c) ==
    /\ Suspended(c, "fetch")
    /\ svc = "score"
    /\ ~IsFirstRun(lastKnownBlackSwanScore, lastKnownMarketPeakScore)
    /\ \E resp \in Responses :
          LET bs == FetchedBlackSwan(resp)
              mp == FetchedMarketPeak(resp)
              blackswanChanged == Changed(bs, lastKnownBlackSwanScore)
              marketPeakChanged == Changed(mp, lastKnownMarketPeakScore)
              updateType == UpdateTypeOf(blackswanChanged, marketPeakChanged)
          IN  /\ ~FetchThrows(svc, resp)
              /\ blackswanChanged \/ marketPeakChanged
              /\ lastScores' = ScoresLogged(svc, resp)
              /\ cycles' = [cycles EXCEPT
                              ![c].pc = "tx",
                              ![c].blackswanScore = bs,
                              ![c].marketPeakScore = mp,
                              ![c].blackswanChanged = blackswanChanged,
                              ![c].marketPeakChanged = marketPeakChanged,
                              ![c].updateType = updateType]
              /\ pending' = pending \cup {ScoreOnlyCall(c, bs, mp, updateType)}
              /\ txOptions' = WithOptionsOf(ScoreOnlyCall(c, bs, mp, updateType),
                                            ScoreOnlyTxOptions(env))
    /\ UNCHANGED <<envVars, cacheVars, lifeVars, serviceStatus, nextCycle,
                   chain, lastLog, lastFailure, lastHttp>>

\* Content-publishing service, steady state, a score changed: the first
\* upload is started.
ContentUpdate(c) ==
    /\ Suspended(c, "fetch")
    /\ svc = "content"
    /\ ~IsFirstRun(lastKnownBlackSwanScore, lastKnownMarketPeakScore)
    /\ \E resp \in Responses :
          LET bs == FetchedBlackSwan(resp)
              mp == FetchedMarketPeak(resp)
              blackswanChanged == Changed(bs, lastKnownBlackSwanScore)
              marketPeakChanged == Changed(mp, lastKnownMarketPeakScore)
          IN  /\ ~FetchThrows(svc, resp)
              /\ blackswanChanged \/ marketPeakChanged
              /\ lastScores' = ScoresLogged(svc, resp)
              /\ cycles' = [cycles EXCEPT
                              ![c].pc = "pin1",
                              ![c].blackswanScore = bs,
                              ![c].marketPeakScore = mp,
                              ![c].blackswanChanged = blackswanChanged,
                              ![c].marketPeakChanged = marketPeakChanged]
    /\ UNCHANGED <<envVars, cacheVars, lifeVars, serviceStatus, nextCycle,
                   pending, txOptions, chain, lastLog, lastFailure, lastHttp>>

\* A continuation that submits the call right after the first upload,
\* without the second: C27 does not hold of a service that goes on this
\* way.
Pin1OkThenSubmit(c) ==
    /\ Suspended(c, "pin1")
    /\ cycles' = [cycles EXCEPT ![c].pc = "tx",
                                ![c].blackSwanIPFS = BlackSwanRef(c)]
    /\ pending' = pending \cup {ContentCall(c, cycles[c].blackswanScore,
                                            cycles[c].marketPeakScore,
                                            BlackSwanRef(c), null)}
    /\ txOptions' =
          WithOptionsOf(ContentCall(c, cycles[c].blackswanScore,
                        cycles[c].marketPeakScore, BlackSwanRef(c), null),
                        ContentTxOptions(env))
    /\ UNCHANGED <<envVars, cacheVars, lifeVars, serviceStatus, nextCycle,
                   chain, logVars, lastHttp>>

\* The BlackSwan document is pinned: the MarketPeak upload is started.
Pin1Ok(c) ==
    /\ Suspended(c, "pin1")
    /\ cycles' = [cycles EXCEPT ![c].pc = "pin2",
                                ![c].blackSwanIPFS = BlackSwanRef(c)]
    /\ UNCHANGED <<envVars, cacheVars, lifeVars, serviceStatus, nextCycle,
                   pending, txOptions, chain, logVars, lastHttp>>

\* The MarketPeak document is pinned: updateOracleScoresAndAnalysis is
\* called and sends the transaction.
Pin2Ok(c) ==
    /\ Suspended(c, "pin2")
    /\ cycles' = [cycles EXCEPT ![c].pc = "tx",
                                ![c].marketPeakIPFS = MarketPeakRef(c)]
    /\ pending' = pending \cup {ContentCall(c, cycles[c].blackswanScore,
                                            cycles[c].marketPeakScore,
                                            cycles[c].blackSwanIPFS,
                                            MarketPeakRef(c))}
    /\ txOptions' =
          WithOptionsOf(ContentCall(c, cycles[c].blackswanScore,
                        cycles[c].marketPeakScore,
                        cycles[c].blackSwanIPFS, MarketPeakRef(c)),
                        ContentTxOptions(env))
    /\ UNCHANGED <<envVars, cacheVars, lifeVars, serviceStatus, nextCycle,
                   chain,
                   logVars, lastHttp>>

\* uploadJSONToIPFS throws.
PinFails(c) ==
    /\ Suspended(c, "pin1") \/ Suspended(c, "pin2")
    /\ Catch(c, "publish")
    /\ UNCHANGED lastScores

\* updateOracleScores / updateOracleScoresAndAnalysis returns false: sending
\* threw (an argument does not encode, insufficient funds, nonce, network),
\* or the transaction reverted (paused, not authorised, out of gas), or its
\* receipt has a status other than 1.
TxFails(c) ==
    /\ Suspended(c, "tx")
    /\ pending' = pending \ {TxOf(c)}
    /\ txOptions' = [t \in pending' |-> txOptions[t]]
    /\ serviceStatus' = IF cycles[c].firstRun
                        THEN StatusOnFirstRunTxFailure(serviceStatus)
                        ELSE StatusOnTxFailure(serviceStatus)
    /\ lastFailure' = <<[fn |-> TxOf(c).fn,
                         blackswanArg |-> TxOf(c).blackswanScore,
                         marketPeakArg |-> TxOf(c).marketPeakScore,
                         blackswanScore |-> cycles[c].blackswanScore,
                         marketPeakScore |-> cycles[c].marketPeakScore]>>
    /\ Return(c)
    /\ lastLog' = "txfailed"
    /\ UNCHANGED <<envVars, cacheVars, lifeVars, nextCycle, chain, lastScores>>

\* A commit that stores the two scores and leaves the references for
\* later: C28 does not hold of a cycle that commits this way.
TxSucceedsScoresOnly(c) ==
    /\ Suspended(c, "tx")
    /\ CallEncodes(TxOf(c))
    /\ chain' = ContractApply(chain, TxOf(c))
    /\ pending' = pending \ {TxOf(c)}
    /\ txOptions' = [t \in pending' |-> txOptions[t]]
    /\ lastKnownBlackSwanScore' = cycles[c].blackswanScore
    /\ lastKnownMarketPeakScore' = cycles[c].marketPeakScore
    /\ serviceStatus' = StatusOnSuccess(serviceStatus)
    /\ Return(c)
    /\ lastLog' = "updated"
    /\ lastFailure' = <<>>
    /\ UNCHANGED <<envVars, lifeVars, nextCycle, lastScores,
                   lastKnownBlackSwanIPFS, lastKnownMarketPeakIPFS>>

\* The transaction is mined with status 1: the contract's storage changes
\* and the cycle commits the cache.
TxSucceeds(c) ==
    /\ Suspended(c, "tx")
    /\ CallEncodes(TxOf(c))
    /\ chain' = ContractApply(chain, TxOf(c))
    /\ pending' = pending \ {TxOf(c)}
    /\ txOptions' = [t \in pending' |-> txOptions[t]]
    /\ lastKnownBlackSwanScore' = cycles[c].blackswanScore
    /\ lastKnownMarketPeakScore' = cycles[c].marketPeakScore
    /\ lastKnownBlackSwanIPFS' = cycles[c].blackSwanIPFS
    /\ lastKnownMarketPeakIPFS' = cycles[c].marketPeakIPFS
    /\ serviceStatus' = StatusOnSuccess(serviceStatus)
    /\ Return(c)
    /\ lastLog' = "updated"
    /\ lastFailure' = <<>>
    /\ UNCHANGED <<envVars, lifeVars, nextCycle, lastScores>>

----------------------------------------------------------------------------
Step(c) ==
    \/ FetchFails(c)
    \/ FirstRunSeed(c)
    \/ FirstRunPublish(c)
    \/ NoChange(c)
    \/ ScoreUpdate(c)
    \/ ContentUpdate(c)
    \/ Pin1Ok(c)
    \/ Pin2Ok(c)
    \/ PinFails(c)
    \/ TxFails(c)
    \/ TxSucceeds(c)

Next ==
    \/ Start
    \/ StartResume
    \/ TimerTick
    \/ ManualUpdate
    \/ \E c \in Cycles : Step(c)

\* The service from its construction on, with every interleaving of the
\* timer, POST /update and the cycles in flight.
Spec == Init /\ [][Next]_vars

\* The same with a shutdown signal at any point.
NextShutdown == Next \/ Signal \/ StopClosed

SpecShutdown == Init /\ [][NextShutdown]_vars

\* The service used through start() and stop().
NextLifecycle ==
    \/ CallStart
    \/ StartReturns
    \/ CallStop
    \/ StopReturns
    \/ LiveTimerTick
    \/ ManualUpdate
    \/ \E c \in Cycles : Step(c)

SpecLifecycle == Init /\ [][NextLifecycle]_vars

\* The same with the startup connectivity check completing at any point.
NextStartup == Next \/ ConnectOk \/ ConnectFails

SpecStartup == Init /\ [][NextStartup]_vars

\* The same with GET /health and a shutdown signal at any point.
NextHealth == NextShutdown \/ GetHealth

SpecHealth == Init /\ [][NextHealth]_vars

\* The service with requests to its four read endpoints at any point.
NextReads == Next \/ GetRoot \/ GetHealth \/ GetStatus \/ GetScores

SpecReads == Init /\ [][NextReads]_vars

\* The service against an API that can also carry faulty scores.
InitAnyApi == InitWith(ApiScores \cup FaultyScores)

SpecAnyApi == InitAnyApi /\ [][Next]_vars

\* The service against an API that can also carry the negative fraction
\* -0.5 (-1 in halves).
InitNegativeFraction == InitWith(ApiScores \cup {-1})

SpecNegativeFraction == InitNegativeFraction /\ [][Next]_vars

\* The contract under calls by any address, the service not started.
NextOracle ==
    \/ CallUpdateBlackSwanScore
    \/ CallUpdateMarketPeakScore
    \/ CallUpdateBothScores
    \/ CallUpdateBlackSwanAnalysisIPFS
    \/ CallUpdateMarketPeakAnalysisIPFS
    \/ CallUpdateBothAnalysisIPFS
    \/ CallUpdateScoresAndAnalysis
    \/ CallAddDevWallet
    \/ CallRemoveDevWallet
    \/ CallPause
    \/ CallUnpause
    \/ CallGetAllData
    \/ CallIsDevWallet
    \/ CallGetDevWalletCount
    \/ CallGetDevWalletByIndex
    \/ CallPaused

InitOracle == Init /\ svc = "content"

SpecOracle == InitOracle /\ [][NextOracle]_vars

\* The process from main on, under any settings: the constructor, then
\* start() and what follows it.
InitConfig ==
    /\ svc \in {"content", "score"}
    /\ apiScores = ApiScores
    /\ connPc = "unconstructed"
    /\ served = <<>>
    /\ env \in Environments
    /\ oracle = initialize(1)
    /\ receipt = <<>>
    /\ replayed = NothingReplayed
    /\ lastHttp = <<>>
    /\ lastKnownBlackSwanScore = null
    /\ lastKnownMarketPeakScore = null
    /\ lastKnownBlackSwanIPFS = null
    /\ lastKnownMarketPeakIPFS = null
    /\ isRunning = FALSE
    /\ intervalId = FALSE
    /\ strayTimers = 0
    /\ httpServer = "none"
    /\ serviceStatus = [status |-> "starting", uptime |-> 0,
                        startTime |-> Date, lastUpdate |-> null,
                        lastSuccessfulUpdate |-> null, updateCount |-> 0,
                        errorCount |-> 0, lastError |-> <<>>,
                        isHealthy |-> FALSE]
    /\ startPc = "idle"
    /\ stopPc = "idle"
    /\ exited = FALSE
    /\ cycles = [c \in 1 .. MaxCycles |-> NewCycle]
    /\ nextCycle = 1
    /\ pending = {}
    /\ txOptions = <<>>
    /\ chain = [blackSwanScore |-> 0, marketPeakScore |-> 0,
                blackSwanAnalysisIPFS |-> EmptyString,
                marketPeakAnalysisIPFS |-> EmptyString]
    /\ lastScores = NoScores
    /\ lastLog = "none"
    /\ lastFailure = <<>>

NextConfig ==
    \/ Construct
    \/ connPc # "unconstructed" /\ Next

SpecConfig == InitConfig /\ [][NextConfig]_vars

\* The service under any of the transaction-shaping settings.
InitGas ==
    /\ svc \in {"content", "score"}
    /\ apiScores = ApiScores
    /\ connPc = "checking"
    /\ served = <<>>
    /\ env \in {CompleteEnvironment @@ g : g \in GasEnvironments}
    /\ oracle = initialize(1)
    /\ receipt = <<>>
    /\ replayed = NothingReplayed
    /\ lastHttp = <<>>
    /\ lastKnownBlackSwanScore = null
    /\ lastKnownMarketPeakScore = null
    /\ lastKnownBlackSwanIPFS = null
    /\ lastKnownMarketPeakIPFS = null
    /\ isRunning = FALSE
    /\ intervalId = FALSE
    /\ strayTimers = 0
    /\ httpServer = "none"
    /\ serviceStatus = [status |-> "starting", uptime |-> 0,
                        startTime |-> Date, lastUpdate |-> null,
                        lastSuccessfulUpdate |-> null, updateCount |-> 0,
                        errorCount |-> 0, lastError |-> <<>>,
                        isHealthy |-> FALSE]
    /\ startPc = "idle"
    /\ stopPc = "idle"
    /\ exited = FALSE
    /\ cycles = [c \in 1 .. MaxCycles |-> NewCycle]
    /\ nextCycle = 1
    /\ pending = {}
    /\ txOptions = <<>>
    /\ chain = [blackSwanScore |-> 0, marketPeakScore |-> 0,
                blackSwanAnalysisIPFS |-> EmptyString,
                marketPeakAnalysisIPFS |-> EmptyString]
    /\ lastScores = NoScores
    /\ lastLog = "none"
    /\ lastFailure = <<>>

SpecGas == InitGas /\ [][Next]_vars

\* The service against an API that keeps answering with one valid pair of
\* scores, when every fetch, upload and transaction succeeds.  With one pair
\* no cycle after the first run finds a changed score, so the steady-state
\* update is never taken and a cycle is one of the steps below.
InitSteady ==
    \E v \in ApiScores : InitWith({v})

StepSteady(c) ==
    \/ FirstRunSeed(c)
    \/ FirstRunPublish(c)
    \/ NoChange(c)
    \/ Pin1Ok(c)
    \/ Pin2Ok(c)
    \/ TxSucceeds(c)

NextSteady ==
    \/ Start
    \/ StartResume
    \/ TimerTick
    \/ ManualUpdate
    \/ \E c \in Cycles : StepSteady(c)

\* start() runs, the timer fires while it can, and every awaited call
\* returns; POST /update may be requested or not.
SpecSteady ==
    /\ InitSteady
    /\ [][NextSteady]_vars
    /\ WF_vars(Start \/ StartResume)
    /\ WF_vars(TimerTick)
    /\ \A c \in Cycles : WF_vars(StepSteady(c))

\* The score-only service alone.
InitScoreOnly == Init /\ svc = "score"

StepScoreOnly(c) ==
    \/ FetchFails(c)
    \/ FirstRunSeed(c)
    \/ NoChange(c)
    \/ ScoreUpdate(c)
    \/ TxFails(c)
    \/ TxSucceeds(c)

NextScoreOnly ==
    \/ Start
    \/ StartResume
    \/ TimerTick
    \/ ManualUpdate
    \/ \E c \in Cycles : StepScoreOnly(c)

SpecScoreOnly == InitScoreOnly /\ [][NextScoreOnly]_vars

\* The content-publishing service alone.
InitContent == Init /\ svc = "content"

StepContent(c) ==
    \/ FetchFails(c)
    \/ FirstRunPublish(c)
    \/ NoChange(c)
    \/ ContentUpdate(c)
    \/ Pin1Ok(c)
    \/ Pin2Ok(c)
    \/ PinFails(c)
    \/ TxFails(c)
    \/ TxSucceeds(c)

NextContent ==
    \/ Start
    \/ StartResume
    \/ TimerTick
    \/ ManualUpdate
    \/ \E c \in Cycles : StepContent(c)

SpecContent == InitContent /\ [][NextContent]_vars

----------------------------------------------------------------------------
\* Shorthands for the properties below.

\* Cycle c resumes from its fetch in this step, and the fetch did not throw.
Decides(c) ==
    /\ cycles[c].pc = "fetch"
    /\ cycles'[c].pc # "fetch"
    /\ lastScores'.ok

CacheSet == lastKnownBlackSwanScore # null /\ lastKnownMarketPeakScore # null

\* The calls sent in this step.
Sent == pending' \ pending

----------------------------------------------------------------------------
\* C1: at most one cycle of checkAndUpdateScores is in flight at any time,
\* and never two transactions are sent and not yet settled.  (Refuted: a
\* second cycle starts while the first awaits.)
C1_OneCycleInFlight ==
    /\ Cardinality(InFlight) <= 1
    /\ Cardinality(pending) <= 1

\* C2: the cache changes only in the step in which a cycle's transaction
\* is confirmed.  (Refuted: the score-only service's first run writes the
\* cache with no transaction.)
C2_CacheWrittenOnlyOnConfirmedTx ==
    [][cacheVars' # cacheVars => \E c \in Cycles : TxSucceeds(c)]_vars

\* C3: with no cycle in flight, cached scores equal the scores on chain,
\* and in the content-publishing service the cached references equal the
\* references on chain.  (Refuted: after the score-only first run the cache
\* holds scores the chain never received.)
C3_CacheEqualsChainAtRest ==
    (InFlight = {} /\ CacheSet) =>
        /\ lastKnownBlackSwanScore = chain.blackSwanScore
        /\ lastKnownMarketPeakScore = chain.marketPeakScore
        /\ svc = "content" =>
              /\ lastKnownBlackSwanIPFS = chain.blackSwanAnalysisIPFS
              /\ lastKnownMarketPeakIPFS = chain.marketPeakAnalysisIPFS

----------------------------------------------------------------------------
\* The integer scores fetched by the cycle that resumes from its fetch in
\* this step, and whether each differs from the cache.
Bs == lastScores'.blackswanScore
Mp == lastScores'.marketPeakScore
BsDiffers == Bs # lastKnownBlackSwanScore
MpDiffers == Mp # lastKnownMarketPeakScore

\* Cycle c's transaction settles in this step, confirmed or failed.
TxConfirmed(c) ==
    /\ cycles[c].pc = "tx"
    /\ cycles'[c].pc = "done"
    /\ serviceStatus'.updateCount = serviceStatus.updateCount + 1

TxFailed(c) ==
    /\ cycles[c].pc = "tx"
    /\ cycles'[c].pc = "done"
    /\ serviceStatus'.updateCount = serviceStatus.updateCount

\* C4: when the cache is set and both fetched integer scores equal the
\* cached ones, the cycle returns without an oracle call and without a
\* publish, and the cache (and the chain) stay as they are.
C4_NoChangeNoWrite ==
    [][\A c \in Cycles :
          (Decides(c) /\ CacheSet /\ ~BsDiffers /\ ~MpDiffers) =>
              /\ cycles'[c].pc = "done"
              /\ pending' = pending
              /\ chain' = chain
              /\ cacheVars' = cacheVars]_vars

\* A cycle has returned on equal scores, with the cache set and nothing
\* sent.
C4_Witness == lastLog = "nochange" /\ CacheSet /\ pending = {}

\* C5: in the score-only service, a steady-state cycle in which exactly one
\* fetched score differs from the cache sends exactly one transaction, the
\* single-field update of that score with the fetched value, never
\* updateBothScores; when it is confirmed the cache holds the fetched pair.
C5_SingleFieldUpdate ==
    [][\A c \in Cycles :
          /\ (svc = "score" /\ Decides(c) /\ CacheSet
                 /\ BsDiffers # MpDiffers) =>
                /\ cycles'[c].pc = "tx"
                /\ cycles'[c].blackswanScore = Bs
                /\ cycles'[c].marketPeakScore = Mp
                /\ Sent =
                     {[cycle |-> c,
                       fn |-> IF BsDiffers THEN "updateBlackSwanScore"
                                              ELSE "updateMarketPeakScore",
                       blackswanScore |-> IF BsDiffers THEN Bs ELSE null,
                       marketPeakScore |-> IF MpDiffers THEN Mp ELSE null,
                       blackSwanIPFS |-> null,
                       marketPeakIPFS |-> null]}
          /\ (svc = "score" /\ cycles[c].pc = "tx") =>
                /\ \A t \in Sent : t.cycle # c
                /\ (TxConfirmed(c) /\ TxOf(c).fn # "updateBothScores") =>
                      /\ lastKnownBlackSwanScore' = cycles[c].blackswanScore
                      /\ lastKnownMarketPeakScore' = cycles[c].marketPeakScore]_vars

\* One update has been confirmed, and it wrote the BlackSwan score alone:
\* the cache holds the fetched pair while the chain's MarketPeak score is
\* still the one it started with.
C5_Witness ==
    /\ svc = "score"
    /\ lastLog = "updated"
    /\ serviceStatus.updateCount = 1
    /\ CacheSet
    /\ chain.blackSwanScore = lastKnownBlackSwanScore
    /\ chain.marketPeakScore # lastKnownMarketPeakScore

\* C6 as stated: in the content-publishing service, a steady-state cycle
\* in which exactly one fetched score differs from the cache sends the
\* update of the changed score only, never the combined update.
C6_SingleFieldInContent ==
    [][\A c \in Cycles :
          (svc = "content" /\ cycles[c].pc = "pin2" /\ cycles'[c].pc = "tx"
             /\ ~cycles[c].firstRun
             /\ cycles[c].blackswanChanged # cycles[c].marketPeakChanged) =>
              \A t \in Sent :
                  t.fn = IF cycles[c].blackswanChanged
                         THEN "updateBlackSwanScore"
                         ELSE "updateMarketPeakScore"]_vars

\* C6 amended: in the content-publishing service, a steady-state cycle in
\* which exactly one fetched score differs from the cache sends, once both
\* documents are pinned, exactly one transaction: the combined update
\* updateScoresAndAnalysis with both fetched scores and the two references
\* the uploads returned.
C6_ContentAlwaysCombined ==
    [][\A c \in Cycles :
          /\ (svc = "content" /\ Decides(c) /\ CacheSet
                 /\ BsDiffers # MpDiffers) =>
                /\ cycles'[c].pc = "pin1"
                /\ Sent = {}
                /\ cycles'[c].blackswanScore = Bs
                /\ cycles'[c].marketPeakScore = Mp
                /\ cycles'[c].blackswanChanged = BsDiffers
                /\ cycles'[c].marketPeakChanged = MpDiffers
          /\ (svc = "content" /\ cycles[c].pc = "pin2" /\ cycles'[c].pc = "tx"
                 /\ ~cycles[c].firstRun
                 /\ cycles[c].blackswanChanged # cycles[c].marketPeakChanged) =>
                /\ Sent =
                     {[cycle |-> c,
                       fn |-> "updateScoresAndAnalysis",
                       blackswanScore |-> cycles[c].blackswanScore,
                       marketPeakScore |-> cycles[c].marketPeakScore,
                       blackSwanIPFS |-> cycles'[c].blackSwanIPFS,
                       marketPeakIPFS |-> cycles'[c].marketPeakIPFS]}
                /\ cycles'[c].blackSwanIPFS \notin {null, lastKnownBlackSwanIPFS}
                /\ cycles'[c].marketPeakIPFS \notin {null, lastKnownMarketPeakIPFS}
          /\ (svc = "content" /\ cycles[c].pc \in {"pin1", "tx"}) =>
                \A t \in Sent : t.cycle # c]_vars

\* A steady-state cycle of the content-publishing service that saw one
\* score change awaits its combined update.
C6_Witness ==
    /\ svc = "content"
    /\ \E c \in Cycles :
          /\ cycles[c].pc = "tx"
          /\ ~cycles[c].firstRun
          /\ cycles[c].blackswanChanged # cycles[c].marketPeakChanged
          /\ TxOf(c).fn = "updateScoresAndAnalysis"
          /\ TxOf(c).blackswanScore # TxOf(c).marketPeakScore

\* C7: a steady-state cycle in which both fetched scores differ from the
\* cache sends exactly one transaction, the combined update with both
\* fetched scores: updateBothScores in the score-only service, and
\* updateScoresAndAnalysis, once both documents are pinned, in the
\* content-publishing service.
C7_BothChangedCombinedUpdate ==
    [][\A c \in Cycles :
          /\ (Decides(c) /\ CacheSet /\ BsDiffers /\ MpDiffers) =>
                /\ cycles'[c].blackswanScore = Bs
                /\ cycles'[c].marketPeakScore = Mp
                /\ cycles'[c].blackswanChanged /\ cycles'[c].marketPeakChanged
                /\ IF svc = "score"
                   THEN /\ cycles'[c].pc = "tx"
                        /\ Sent = {[cycle |-> c,
                                    fn |-> "updateBothScores",
                                    blackswanScore |-> Bs,
                                    marketPeakScore |-> Mp,
                                    blackSwanIPFS |-> null,
                                    marketPeakIPFS |-> null]}
                   ELSE /\ cycles'[c].pc = "pin1"
                        /\ Sent = {}
          /\ (cycles[c].pc = "pin2" /\ cycles'[c].pc = "tx"
                 /\ ~cycles[c].firstRun
                 /\ cycles[c].blackswanChanged /\ cycles[c].marketPeakChanged) =>
                Sent = {[cycle |-> c,
                         fn |-> "updateScoresAndAnalysis",
                         blackswanScore |-> cycles[c].blackswanScore,
                         marketPeakScore |-> cycles[c].marketPeakScore,
                         blackSwanIPFS |-> cycles'[c].blackSwanIPFS,
                         marketPeakIPFS |-> cycles'[c].marketPeakIPFS]}
          /\ (cycles[c].pc \in {"pin1", "tx"}) =>
                \A t \in Sent : t.cycle # c]_vars

\* The score-only service's one confirmed update moved both scores on
\* chain away from their initial value, to the pair now cached.
C7_Witness ==
    /\ svc = "score"
    /\ lastLog = "updated"
    /\ serviceStatus.updateCount = 1
    /\ chain.blackSwanScore = lastKnownBlackSwanScore
    /\ chain.marketPeakScore = lastKnownMarketPeakScore
    /\ chain.blackSwanScore # 0
    /\ chain.marketPeakScore # 0

\* C8: a cycle that finds the cache unset goes on to an oracle write with
\* both scores (the content-publishing service pins the documents first),
\* and the cache stays unset until that write is confirmed.  (Refuted: the
\* score-only service caches the scores and returns.)
C8_FirstRunWritesOracle ==
    [][\A c \in Cycles :
          (Decides(c) /\ ~CacheSet) =>
              /\ cacheVars' = cacheVars
              /\ IF svc = "score"
                 THEN /\ cycles'[c].pc = "tx"
                      /\ \E t \in Sent : /\ t.blackswanScore = Bs
                                         /\ t.marketPeakScore = Mp
                 ELSE cycles'[c].pc = "pin1"]_vars

\* C9: when a cycle's transaction fails, the cache is unchanged, errorCount
\* grows by one, isHealthy is false and lastError is set.  (Refuted: no
\* failed transaction sets lastError, and a failed first-run transaction of
\* the content-publishing service changes nothing at all.)
C9_TxFailureRecorded ==
    [][\A c \in Cycles :
          TxFailed(c) =>
              /\ cacheVars' = cacheVars
              /\ serviceStatus'.errorCount = serviceStatus.errorCount + 1
              /\ ~serviceStatus'.isHealthy
              /\ serviceStatus'.lastError # <<>>]_vars

\* C10: once a transaction has failed and none has succeeded since, a cycle
\* that fetches the scores of the failed cycle makes the failed call again:
\* the same contract function with the same score arguments (in the
\* content-publishing service, it pins the documents again for that call).
\* (Refuted: with two cycles in flight the cache can change between the
\* failed cycle's decision and the retry.)
C10_RetryRepeatsFailedCall ==
    [][\A c \in Cycles :
          (/\ lastFailure # <<>>
           /\ Decides(c)
           /\ Bs = lastFailure[1].blackswanScore
           /\ Mp = lastFailure[1].marketPeakScore) =>
              IF svc = "score"
              THEN \E t \in Sent :
                      /\ t.cycle = c
                      /\ t.fn = lastFailure[1].fn
                      /\ t.blackswanScore = lastFailure[1].blackswanArg
                      /\ t.marketPeakScore = lastFailure[1].marketPeakArg
              ELSE /\ cycles'[c].pc = "pin1"
                   /\ cycles'[c].blackswanScore = lastFailure[1].blackswanArg
                   /\ cycles'[c].marketPeakScore = lastFailure[1].marketPeakArg]_vars

----------------------------------------------------------------------------
\* Cycle c's transaction is confirmed in this step.
Confirmed(c) ==
    /\ cycles[c].pc = "tx"
    /\ cycles'[c].pc = "done"
    /\ lastLog' = "updated"

\* C11: in the step in which a cycle's transaction is confirmed the cached
\* scores become exactly the scores that transaction carried (a score it
\* did not carry stays as cached), in the content-publishing service the
\* cached references become the references it carried, lastSuccessfulUpdate
\* is set, updateCount grows by one, isHealthy is true and the cycle has
\* returned.  (Refuted: the score-only service caches the fetched pair, and
\* with two cycles in flight that pair overwrites a score another cycle has
\* cached since.)
C11_ConfirmedTxCommitsSentValues ==
    [][\A c \in Cycles :
          Confirmed(c) =>
              /\ lastKnownBlackSwanScore' =
                    IF TxOf(c).blackswanScore # null
                    THEN TxOf(c).blackswanScore
                    ELSE lastKnownBlackSwanScore
              /\ lastKnownMarketPeakScore' =
                    IF TxOf(c).marketPeakScore # null
                    THEN TxOf(c).marketPeakScore
                    ELSE lastKnownMarketPeakScore
              /\ svc = "content" =>
                    /\ lastKnownBlackSwanIPFS' = TxOf(c).blackSwanIPFS
                    /\ lastKnownMarketPeakIPFS' = TxOf(c).marketPeakIPFS
              /\ serviceStatus'.lastSuccessfulUpdate = Date
              /\ serviceStatus'.updateCount = serviceStatus.updateCount + 1
              /\ serviceStatus'.isHealthy]_vars

----------------------------------------------------------------------------
\* Cycle c resumes from its fetch in this step, and the fetch threw.
FetchFailed(c) ==
    /\ cycles[c].pc = "fetch"
    /\ cycles'[c].pc # "fetch"
    /\ ~lastScores'.ok

\* C12: when the fetch of a cycle fails (the API is unreachable, or its
\* answer lacks a required field) the cycle sends no transaction, publishes
\* nothing, leaves the cache and the chain as they are, adds one to
\* errorCount, sets lastError, sets isHealthy to false and returns; the
\* process goes on.
C12_FetchFailureRecorded ==
    [][\A c \in Cycles :
          FetchFailed(c) =>
              /\ cycles'[c].pc = "done"
              /\ pending' = pending
              /\ chain' = chain
              /\ cacheVars' = cacheVars
              /\ serviceStatus'.errorCount = serviceStatus.errorCount + 1
              /\ serviceStatus'.lastError =
                    <<[message |-> "fetch", timestamp |-> Date]>>
              /\ ~serviceStatus'.isHealthy
              /\ ~exited']_vars

\* A fetch has failed after the cache was set: the failure is recorded, no
\* call is awaited and the cache is still set.
C12_Witness ==
    /\ lastLog = "error"
    /\ ~lastScores.ok
    /\ CacheSet
    /\ pending = {}
    /\ serviceStatus.errorCount = 1
    /\ ~serviceStatus.isHealthy
    /\ serviceStatus.lastError = <<[message |-> "fetch", timestamp |-> Date]>>

----------------------------------------------------------------------------
\* The API answers in this step, to cycle c, with a response that carries
\* a negative score or a score that is no number.
InvalidScoreFetched(c) ==
    /\ cycles[c].pc = "fetch"
    /\ cycles'[c].pc # "fetch"
    /\ \E resp \in Responses :
          /\ resp.up
          /\ resp.blackswan # undefined
          /\ resp.marketPeak # undefined
          /\ ~IsValidScore(resp.blackswan) \/ ~IsValidScore(resp.marketPeak)
          /\ lastScores' = ScoresLogged(svc, resp)

\* C13: in both services a fetched score that is negative or no number is
\* a fetch failure: the cycle returns at once with nothing published, no
\* call attempted, the cache unchanged and errorCount one higher.
\* (Refuted: the content-publishing service does not look at the scores;
\* it floors them, uploads both documents and attempts the call.)
C13_InvalidScoreIsFetchFailure ==
    [][\A c \in Cycles :
          InvalidScoreFetched(c) =>
              /\ cycles'[c].pc = "done"
              /\ pending' = pending
              /\ cacheVars' = cacheVars
              /\ serviceStatus'.errorCount = serviceStatus.errorCount + 1]_vars

----------------------------------------------------------------------------
\* An upload of cycle c throws in this step: the cycle leaves the first or
\* the second upload and has returned.
PublishFailed(c) ==
    /\ cycles[c].pc \in {"pin1", "pin2"}
    /\ cycles'[c].pc = "done"

\* C14: in the content-publishing service, when the upload of either
\* document fails (the first, or the second after the first was published)
\* the cycle is aborted: it sends no transaction, the cached scores and
\* references and the chain stay as they are, errorCount grows by one and
\* isHealthy is false.
C14_PublishFailureAborts ==
    [][\A c \in Cycles :
          PublishFailed(c) =>
              /\ pending' = pending
              /\ \A t \in pending' : t.cycle # c
              /\ chain' = chain
              /\ cacheVars' = cacheVars
              /\ serviceStatus'.errorCount = serviceStatus.errorCount + 1
              /\ ~serviceStatus'.isHealthy]_vars

\* An upload has failed after an update was confirmed: the cache is set,
\* the failure is counted and the service is unhealthy.
C14_Witness ==
    /\ svc = "content"
    /\ lastLog = "error"
    /\ serviceStatus.lastError =
          <<[message |-> "publish", timestamp |-> Date]>>
    /\ CacheSet
    /\ serviceStatus.updateCount = 1
    /\ serviceStatus.errorCount = 1
    /\ ~serviceStatus.isHealthy

----------------------------------------------------------------------------
\* The two references are those of the documents one cycle uploaded.
RefsOfOneCycle(bsRef, mpRef) ==
    \E c \in Cycles : bsRef = BlackSwanRef(c) /\ mpRef = MarketPeakRef(c)

\* The scores and references cycle c fetched and uploaded.
CycleCommit(c) ==
    <<cycles[c].blackswanScore, cycles[c].marketPeakScore,
      BlackSwanRef(c), MarketPeakRef(c)>>

\* C15: in the content-publishing service the cached references are never
\* partially stale.  In every reachable state the cached pair of references
\* is unset or the pair one cycle uploaded, and so is the pair on chain;
\* and every step that changes the cached (on-chain) scores or references
\* sets all four to the scores one cycle fetched and the references of the
\* two documents that same cycle uploaded.
C15_RefsNeverPartiallyStale ==
    /\ [](svc = "content" =>
            /\ \/ lastKnownBlackSwanIPFS = null /\ lastKnownMarketPeakIPFS = null
               \/ RefsOfOneCycle(lastKnownBlackSwanIPFS,
                                 lastKnownMarketPeakIPFS)
            /\ \/ /\ chain.blackSwanAnalysisIPFS = EmptyString
                  /\ chain.marketPeakAnalysisIPFS = EmptyString
               \/ RefsOfOneCycle(chain.blackSwanAnalysisIPFS,
                                 chain.marketPeakAnalysisIPFS))
    /\ [][svc = "content" =>
            /\ cacheVars' # cacheVars =>
                  \E c \in Cycles :
                     /\ Confirmed(c)
                     /\ <<lastKnownBlackSwanScore', lastKnownMarketPeakScore',
                          lastKnownBlackSwanIPFS', lastKnownMarketPeakIPFS'>>
                           = CycleCommit(c)
            /\ chain' # chain =>
                  \E c \in Cycles :
                     /\ Confirmed(c)
                     /\ <<chain'.blackSwanScore, chain'.marketPeakScore,
                          chain'.blackSwanAnalysisIPFS,
                          chain'.marketPeakAnalysisIPFS>> = CycleCommit(c)]_vars

\* Two updates have been confirmed: cache and chain hold the references of
\* the two documents a later cycle than the first uploaded.
C15_Witness ==
    /\ svc = "content"
    /\ serviceStatus.updateCount = 2
    /\ \E c \in Cycles \ {1} :
          /\ lastKnownBlackSwanIPFS = BlackSwanRef(c)
          /\ lastKnownMarketPeakIPFS = MarketPeakRef(c)
          /\ chain.blackSwanAnalysisIPFS = BlackSwanRef(c)
          /\ chain.marketPeakAnalysisIPFS = MarketPeakRef(c)

----------------------------------------------------------------------------
\* Cycle c returns in this step after a failure: its fetch or an upload
\* threw, or its transaction failed.
CycleFailed(c) ==
    /\ cycles[c].pc \in {"fetch", "pin1", "pin2", "tx"}
    /\ cycles'[c].pc = "done"
    /\ lastLog' \in {"error", "txfailed"}

\* C16: checkAndUpdateScores never throws.  A cycle that fails returns
\* normally, the failure is then visible in ServiceStatus (errorCount has
\* grown and isHealthy is false), the process has not exited and the timer
\* is still armed as it was.  (Refuted: a failed first-run transaction of
\* the content-publishing service leaves ServiceStatus as it was.)
C16_FailureReturnsAndIsVisible ==
    [][\A c \in Cycles :
          CycleFailed(c) =>
              /\ serviceStatus'.errorCount > serviceStatus.errorCount
              /\ ~serviceStatus'.isHealthy
              /\ ~exited'
              /\ intervalId' = intervalId
              /\ isRunning' = isRunning]_vars

----------------------------------------------------------------------------
\* The cycle c that POST /update awaits returns in this step.
ManualReturns(c) ==
    /\ cycles[c].origin = "manual"
    /\ cycles[c].pc \in {"fetch", "pin1", "pin2", "tx"}
    /\ cycles'[c].pc = "done"

\* C17: POST /update answers 200 with success true when the cycle it ran
\* completed without a fetch, publish or transaction failure, and 500 with
\* success false when the cycle failed.  (Refuted: the cycle catches its
\* own failures and never throws, so the handler always answers 200 with
\* success true.)
C17_UpdateAnswersByOutcome ==
    [][\A c \in Cycles :
          ManualReturns(c) =>
              lastHttp' = IF CycleFailed(c)
                          THEN <<[code |-> 500, success |-> FALSE]>>
                          ELSE <<[code |-> 200, success |-> TRUE]>>]_vars

----------------------------------------------------------------------------
\* C18: on shutdown the timer is cancelled, and a cycle in flight runs to
\* completion (its transaction settled, the cache committed) before the
\* process exits: once the process has exited the timer is not armed, no
\* cycle is suspended and no transaction is awaited.  (Refuted: stop()
\* awaits the HTTP server alone, so process.exit(0) abandons a cycle the
\* timer started.)
C18_ShutdownCompletesCycle ==
    exited => /\ ~intervalId
              /\ InFlight = {}
              /\ pending = {}

----------------------------------------------------------------------------
\* C19: no cycle is started and no transaction is sent before the startup
\* connectivity check has completed successfully; when the check fails the
\* process exits with no cycle ever started.  (Refuted: the constructor
\* does not await the check, and main calls start() right away.)
C19_NoCycleBeforeConnectivityCheck ==
    connPc # "ok" => /\ \A c \in Cycles : cycles[c].pc = "new"
                     /\ pending = {}

----------------------------------------------------------------------------
\* C20: GET /health answers 200 exactly when isHealthy is true and 503
\* otherwise, and the healthy, updateCount, errorCount and lastError of its
\* body are those of ServiceStatus at the time of the answer.
C20_HealthReflectsStatus ==
    [][GetHealth =>
          /\ Len(served') = 1
          /\ served'[1].code = (IF serviceStatus.isHealthy THEN 200 ELSE 503)
          /\ served'[1].healthy = serviceStatus.isHealthy
          /\ served'[1].updateCount = serviceStatus.updateCount
          /\ served'[1].errorCount = serviceStatus.errorCount
          /\ served'[1].lastError = serviceStatus.lastError
          /\ serviceStatus'.isHealthy = serviceStatus.isHealthy
          /\ serviceStatus'.updateCount = serviceStatus.updateCount
          /\ serviceStatus'.errorCount = serviceStatus.errorCount
          /\ serviceStatus'.lastError = serviceStatus.lastError]_vars

\* GET /health has answered 503 while the service runs, after one update
\* was confirmed and one later cycle failed: the body carries both counts
\* and the error.
C20_Witness ==
    /\ served # <<>>
    /\ served[1].code = 503
    /\ ~served[1].healthy
    /\ served[1].status = "running"
    /\ served[1].updateCount = 1
    /\ served[1].errorCount = 1
    /\ served[1].lastError # <<>>
    /\ served[1] = HealthResponse(serviceStatus)

----------------------------------------------------------------------------
\* The position a cycle moves to from its fetch and the oracle call it
\* submits there, as a function of the service variant, the cached scores
\* and the fetched integer scores; c only tags the call with its cycle.
DecisionOf(s, c, cachedBs, cachedMp, bs, mp) ==
    LET unset == cachedBs = null \/ cachedMp = null
        bsNew == bs = NaN \/ bs # cachedBs
        mpNew == mp = NaN \/ mp # cachedMp
    IN  IF ~unset /\ ~bsNew /\ ~mpNew
        THEN [pc |-> "done", calls |-> {}]
        ELSE IF s = "content"
        THEN [pc |-> "pin1", calls |-> {}]
        ELSE IF unset
        THEN [pc |-> "done", calls |-> {}]
        ELSE [pc |-> "tx",
              calls |->
                {[cycle |-> c,
                  fn |-> IF bsNew /\ mpNew THEN "updateBothScores"
                         ELSE IF bsNew THEN "updateBlackSwanScore"
                         ELSE "updateMarketPeakScore",
                  blackswanScore |-> IF bsNew THEN bs ELSE null,
                  marketPeakScore |-> IF mpNew THEN mp ELSE null,
                  blackSwanIPFS |-> null,
                  marketPeakIPFS |-> null]}]

\* C21: whether a cycle writes, with which contract function and with
\* which arguments, is a function of the fetched scores and the cached
\* scores alone.  When a cycle resumes from a fetch that did not throw,
\* its next position and the call it submits are DecisionOf the cache and
\* the fetched pair; the call the content-publishing service submits after
\* its second upload carries the scores the cycle fetched and the
\* references of its own two documents; no field of ServiceStatus enters
\* either, and no call is submitted in any other step.
C21_DecisionIgnoresStatus ==
    [][/\ \A c \in Cycles :
            /\ Decides(c) =>
                  /\ cycles'[c].pc =
                        DecisionOf(svc, c, lastKnownBlackSwanScore,
                                   lastKnownMarketPeakScore, Bs, Mp).pc
                  /\ Sent =
                        DecisionOf(svc, c, lastKnownBlackSwanScore,
                                   lastKnownMarketPeakScore, Bs, Mp).calls
            /\ (cycles[c].pc = "pin2" /\ cycles'[c].pc = "tx") =>
                  Sent = {[cycle |-> c,
                           fn |-> "updateScoresAndAnalysis",
                           blackswanScore |-> cycles[c].blackswanScore,
                           marketPeakScore |-> cycles[c].marketPeakScore,
                           blackSwanIPFS |-> BlackSwanRef(c),
                           marketPeakIPFS |-> MarketPeakRef(c)]}
       /\ Sent # {} =>
             \E c \in Cycles : \/ Decides(c)
                               \/ cycles[c].pc = "pin2" /\ cycles'[c].pc = "tx"]_vars

\* A call is awaited that a cycle submitted while ServiceStatus recorded an
\* earlier failure (errorCount 1, isHealthy false, lastError set) and an
\* earlier success (updateCount 1).
C21_Witness ==
    /\ pending # {}
    /\ CacheSet
    /\ serviceStatus.updateCount = 1
    /\ serviceStatus.errorCount = 1
    /\ ~serviceStatus.isHealthy
    /\ serviceStatus.lastError # <<>>

----------------------------------------------------------------------------
\* Address a is the owner or on the allow-list in contract state st.
Authorized(st, a) == a = st.owner \/ st.devWallets[a]

\* The outcomes of every score or content-reference update sender can call
\* in the current state, over all arguments.
UpdatesBy(st, sender) ==
    {updateBlackSwanScore(st, sender, v) : v \in Uint256s} \cup
    {updateMarketPeakScore(st, sender, v) : v \in Uint256s} \cup
    {updateBothScores(st, sender, v, w) : v, w \in Uint256s} \cup
    {updateBlackSwanAnalysisIPFS(st, sender, h) : h \in IpfsHashes} \cup
    {updateMarketPeakAnalysisIPFS(st, sender, h) : h \in IpfsHashes} \cup
    {updateBothAnalysisIPFS(st, sender, h, k) : h, k \in IpfsHashes} \cup
    {updateScoresAndAnalysis(st, sender, v, w, h, k) :
        v, w \in Uint256s, h, k \in IpfsHashes}

\* The names of the update functions and of the read functions.
UpdateFns ==
    {"updateBlackSwanScore", "updateMarketPeakScore", "updateBothScores",
     "updateBlackSwanAnalysisIPFS", "updateMarketPeakAnalysisIPFS",
     "updateBothAnalysisIPFS", "updateScoresAndAnalysis"}
ReadFns == {"getAllData", "isDevWallet", "getDevWalletCount", "paused"}

\* C22: in every reachable state of the contract, every score or
\* content-reference update by an address that is neither the owner nor on
\* the allow-list reverts and leaves the state unchanged; addDevWallet and
\* removeDevWallet revert for every caller but the owner, and for the owner
\* when adding the zero address or a member or removing a non-member; after
\* the owner removes a member that address can no longer write (unless it
\* is the owner); the reads return for every caller.  And every step that
\* changes scores, references or the allow-list is a successful call by an
\* address entitled to it.
C22_WritesOnlyByOwnerOrAllowList ==
    /\ [](/\ \A sender \in Callers :
               ~Authorized(oracle, sender) =>
                   \A r \in UpdatesBy(oracle, sender) :
                       ~r.ok /\ r.st = oracle
          /\ \A sender \in Callers, wallet \in Addresses :
               /\ sender # oracle.owner =>
                     /\ addDevWallet(oracle, sender, wallet) = Reverted(oracle)
                     /\ removeDevWallet(oracle, sender, wallet)
                          = Reverted(oracle)
               /\ (wallet = ZeroAddress \/ oracle.devWallets[wallet]) =>
                     addDevWallet(oracle, sender, wallet) = Reverted(oracle)
               /\ ~oracle.devWallets[wallet] =>
                     removeDevWallet(oracle, sender, wallet) = Reverted(oracle)
               /\ (sender = oracle.owner /\ oracle.devWallets[wallet]
                      /\ wallet # oracle.owner) =>
                     /\ removeDevWallet(oracle, sender, wallet).ok
                     /\ \A r \in UpdatesBy(removeDevWallet(oracle, sender,
                                                          wallet).st, wallet) :
                           ~r.ok
          /\ (receipt # <<>> /\ receipt[1].fn \in ReadFns) => receipt[1].ok)
    /\ [][/\ getAllData(oracle') # getAllData(oracle) =>
               /\ receipt'[1].ok
               /\ receipt'[1].fn \in UpdateFns
               /\ Authorized(oracle, receipt'[1].sender)
          /\ <<oracle'.devWallets, oracle'.devWalletList>>
                # <<oracle.devWallets, oracle.devWalletList>> =>
               /\ receipt'[1].ok
               /\ receipt'[1].fn \in {"addDevWallet", "removeDevWallet"}
               /\ receipt'[1].sender = oracle.owner]_vars

\* An address that is neither the owner nor on the allow-list has called
\* an update while the contract was not paused and another address was on
\* the list: the call reverted.
C22_Witness ==
    /\ receipt # <<>>
    /\ receipt[1].fn \in UpdateFns
    /\ ~receipt[1].ok
    /\ ~Authorized(oracle, receipt[1].sender)
    /\ ~oracle.paused
    /\ oracle.devWalletList # <<>>

----------------------------------------------------------------------------
\* C23: while the pause flag is set every state-mutating call other than
\* unpause reverts with the state unchanged (the three score updates, the
\* three content-reference updates, updateScoresAndAnalysis, addDevWallet
\* and removeDevWallet, by any caller and with any arguments), the reads
\* still return, and pause and unpause revert for every caller but the
\* owner.  (Refuted: addDevWallet and removeDevWallet are not whenNotPaused;
\* the owner changes the allow-list while the contract is paused.)
C23_PauseDisablesWrites ==
    /\ oracle.paused =>
          \A sender \in Callers :
             /\ \A r \in UpdatesBy(oracle, sender) : r = Reverted(oracle)
             /\ \A wallet \in Addresses :
                   /\ addDevWallet(oracle, sender, wallet) = Reverted(oracle)
                   /\ removeDevWallet(oracle, sender, wallet)
                        = Reverted(oracle)
    /\ (oracle.paused /\ receipt # <<>> /\ receipt[1].fn \in ReadFns) =>
          receipt[1].ok
    /\ \A sender \in Callers :
          sender # oracle.owner =>
             /\ pause(oracle, sender) = Reverted(oracle)
             /\ unpause(oracle, sender) = Reverted(oracle)

----------------------------------------------------------------------------
\* The elements of a sequence.
Range(list) == {list[i] : i \in 1 .. Len(list)}

\* The addresses whose membership flag is set.
Members(st) == {w \in Addresses : st.devWallets[w]}

\* C24: the enumerable list and the membership map stay in sync.  In every
\* reachable state devWalletList has no duplicates and holds exactly the
\* addresses w with devWallets[w] true, and getDevWalletCount is their
\* number; and removeDevWallet(w) by the owner, for a member w, removes
\* exactly w: the last element takes the slot of w, the list shrinks by
\* one, every other element keeps its slot and every other member stays.
C24_ListAndMapInSync ==
    /\ \A i, j \in 1 .. Len(oracle.devWalletList) :
          oracle.devWalletList[i] = oracle.devWalletList[j] => i = j
    /\ Range(oracle.devWalletList) = Members(oracle)
    /\ getDevWalletCount(oracle) = Cardinality(Members(oracle))
    /\ \A w \in Members(oracle) :
          LET before == oracle.devWalletList
              after == removeDevWallet(oracle, oracle.owner, w).st
              slot == CHOOSE i \in 1 .. Len(before) : before[i] = w
          IN  /\ Members(after) = Members(oracle) \ {w}
              /\ Range(after.devWalletList) = Range(before) \ {w}
              /\ Len(after.devWalletList) = Len(before) - 1
              /\ \A i \in 1 .. Len(after.devWalletList) :
                    after.devWalletList[i] =
                       IF i = slot THEN before[Len(before)] ELSE before[i]

\* The owner has removed an address from a list of three: the list holds
\* the other two, 3 before 2.
C24_Witness ==
    /\ receipt # <<>>
    /\ receipt[1].fn = "removeDevWallet"
    /\ receipt[1].ok
    /\ Len(oracle.devWalletList) = 2
    /\ oracle.devWalletList[1] = 3
    /\ oracle.devWalletList[2] = 2
    /\ Members(oracle) = {2, 3}

----------------------------------------------------------------------------
\* The outcomes of every state-mutating call sender can make in the
\* current state, over all arguments.
MutatingCallsBy(st, sender) ==
    UpdatesBy(st, sender) \cup
    {addDevWallet(st, sender, w) : w \in Addresses} \cup
    {removeDevWallet(st, sender, w) : w \in Addresses} \cup
    {pause(st, sender), unpause(st, sender)}

\* Event e names sender as the caller.
CarriesCaller(e, sender) ==
    \/ "updatedBy" \in DOMAIN e /\ e.updatedBy = sender
    \/ "account" \in DOMAIN e /\ e.account = sender

\* The stored scores and references equal the replay of the events.
ReplayEqualsStored ==
    <<replayed.blackSwanScore, replayed.marketPeakScore,
      replayed.blackSwanAnalysisIPFS, replayed.marketPeakAnalysisIPFS>>
       = getAllData(oracle)

----------------------------------------------------------------------------
\* The settings the claim names as required: the RPC endpoint, the signing
\* credential, the contract address and the analytics API endpoint.
RequiredSettings ==
    {"RPC_URL", "DEV_WALLET_PRIVATE_KEY", "ORACLE_CONTRACT_ADDRESS",
     "API_ENDPOINT"}

\* C26: the constructor exits the process, before any HTTP listener, cycle
\* or transaction, exactly when one of the four required settings is absent
\* or malformed; the content-storage credentials are optional.  (Refuted:
\* the content-publishing service exits when a Pinata credential is absent,
\* and neither service looks at the form of the two endpoints.)
C26_FailFastOnRequiredSettings ==
    /\ [][(connPc = "unconstructed"
             /\ (connPc' # "unconstructed" \/ exited')) =>
            (exited' <=> \E name \in RequiredSettings : env[name] # "ok")]_vars
    /\ [](connPc = "unconstructed" =>
            /\ httpServer = "none"
            /\ pending = {}
            /\ \A c \in Cycles : cycles[c].pc = "new")

----------------------------------------------------------------------------
\* The calls of cycle c that are sent and not settled.
CallsOf(c) == {t \in pending : t.cycle = c}

\* Cycle c moves from position p to position q in this step.
Moves(c, p, q) == cycles[c].pc = p /\ cycles'[c].pc = q

----------------------------------------------------------------------------
\* The cache as one tuple, and the part of an answer taken from it.
CacheNow ==
    <<lastKnownBlackSwanScore, lastKnownMarketPeakScore,
      lastKnownBlackSwanIPFS, lastKnownMarketPeakIPFS>>

CacheOf(answer) ==
    <<answer.blackswanScore, answer.marketPeakScore,
      answer.blackswanIPFS, answer.marketPeakIPFS>>

\* A request to GET /status or GET /scores is served in this step.
StatusRead == GetStatus \/ GetScores

\* The cache is all unset, or all of it is set: both scores and, in the
\* content-publishing service, the references of the two documents one
\* cycle uploaded.
WholeCache(t) ==
    \/ t = <<null, null, null, null>>
    \/ /\ t[1] # null
       /\ t[2] # null
       /\ IF svc = "content" THEN RefsOfOneCycle(t[3], t[4])
                             ELSE t[3] = null /\ t[4] = null

\* This step stores in the cache what one cycle fetched (and uploaded).
CommitsOneCycle ==
    \E c \in Cycles :
       \/ /\ svc = "content"
          /\ Confirmed(c)
          /\ CacheNow' = CycleCommit(c)
       \/ /\ svc = "score"
          /\ Confirmed(c)
          /\ CacheNow' = <<cycles[c].blackswanScore,
                           cycles[c].marketPeakScore, null, null>>
       \/ /\ svc = "score"
          /\ cycles[c].pc = "fetch"
          /\ cycles'[c].pc = "done"
          /\ lastLog' = "seeded"
          /\ CacheNow' = <<lastScores'.blackswanScore,
                           lastScores'.marketPeakScore, null, null>>

\* C28: a read of GET /status or GET /scores never observes a partially
\* committed cache.  The answer carries the cache as it is in the state in
\* which the request is served, the read leaves the cache alone, every
\* step that changes the cache stores the scores (and references) of one
\* cycle all at once, and so every answer ever sent holds either the unset
\* cache or scores and references that belong together.
C28_ReadsSeeWholeCommits ==
    /\ [][StatusRead => /\ Len(served') = 1
                        /\ CacheOf(served'[1]) = CacheNow
                        /\ UNCHANGED cacheVars]_vars
    /\ [][cacheVars' # cacheVars => CommitsOneCycle]_vars
    /\ [](WholeCache(CacheNow)
           /\ \A i \in 1 .. Len(served) :
                 served[i].route \in {"/status", "/scores"} =>
                    WholeCache(CacheOf(served[i])))

\* GET /status was served while a cycle was suspended in an external call,
\* after the first update had been committed: the answer holds the scores
\* and both references of that first commit, and the cycle now awaiting
\* its transaction has uploaded other documents.
C28_Witness ==
    /\ svc = "content"
    /\ served # <<>>
    /\ served[1].route = "/status"
    /\ served[1].midCycle
    /\ served[1].blackswanIPFS = BlackSwanRef(1)
    /\ served[1].marketPeakIPFS = MarketPeakRef(1)
    /\ CacheOf(served[1]) = CacheNow
    /\ \E c \in Cycles : c # 1 /\ cycles[c].pc = "tx"

----------------------------------------------------------------------------
\* A request to one of the four read endpoints is served in this step.
ReadServed == GetRoot \/ GetHealth \/ GetStatus \/ GetScores

\* C29 as stated: the read endpoints GET /, GET /health, GET /status and
\* GET /scores only read.  Serving any of them leaves the cached scores and
\* references and every field of ServiceStatus unchanged.
C29_ReadsLeaveStatusUnchanged ==
    [][ReadServed => UNCHANGED <<cacheVars, serviceStatus>>]_vars

----------------------------------------------------------------------------
\* v truncated toward zero, v counted in halves.
Trunc(v) == IF v < 0 THEN -((-v) \div 2) ELSE v \div 2

\* The answers of the API from which the fetch of this step can have made
\* the scores it logged.
FetchedFrom ==
    {resp \in Responses : ScoresLogged(svc, resp) = lastScores'}

\* C30 as stated: a fetched score v is truncated toward zero before it is
\* compared with the cache and before it is written.  The integers a cycle
\* goes on with are trunc(v) of the two fetched scores; a cycle whose
\* truncated scores equal the cached ones sends nothing and uploads
\* nothing; and the scores on chain are never negative.
C30_ScoresTruncatedTowardZero ==
    /\ [][\A c \in Cycles :
             Decides(c) =>
                \A resp \in FetchedFrom :
                   /\ lastScores'.blackswanScore = Trunc(resp.blackswan)
                   /\ lastScores'.marketPeakScore = Trunc(resp.marketPeak)
                   /\ (/\ CacheSet
                       /\ Trunc(resp.blackswan) = lastKnownBlackSwanScore
                       /\ Trunc(resp.marketPeak) = lastKnownMarketPeakScore)
                      => /\ cycles'[c].pc = "done"
                         /\ Sent = {}
                         /\ UNCHANGED <<cacheVars, chain>>]_vars
    /\ [](chain.blackSwanScore >= 0 /\ chain.marketPeakScore >= 0)

----------------------------------------------------------------------------
\* The default gas limit of the function a call goes through.
DefaultGasLimit(t) ==
    IF t.fn = "updateScoresAndAnalysis" THEN 200000 ELSE 100000

\* C31 as stated: the options of every submission are derived from the
\* settings.  gasLimit is GAS_LIMIT when set, otherwise 100000 for a
\* score-only update and 200000 for the scores-and-content update;
\* maxFeePerGas and maxPriorityFeePerGas are set exactly when their
\* settings are present; gasPrice is set exactly when GAS_PRICE_GWEI is
\* present and MAX_FEE_PER_GAS_GWEI is absent; no submission carries both
\* gasPrice and maxFeePerGas.
C31_OptionsFromSettings ==
    \A t \in pending :
       LET o == txOptions[t] IN
       /\ o.gasLimit = IF IsSet(env, "GAS_LIMIT")
                       THEN parseInt(env["GAS_LIMIT"])
                       ELSE DefaultGasLimit(t)
       /\ o.maxFeePerGas # undefined <=> IsSet(env, "MAX_FEE_PER_GAS_GWEI")
       /\ o.maxPriorityFeePerGas # undefined
             <=> IsSet(env, "MAX_PRIORITY_FEE_PER_GAS_GWEI")
       /\ o.gasPrice # undefined
             <=> (/\ IsSet(env, "GAS_PRICE_GWEI")
                  /\ ~IsSet(env, "MAX_FEE_PER_GAS_GWEI"))
       /\ ~(o.gasPrice # undefined /\ o.maxFeePerGas # undefined)

----------------------------------------------------------------------------
\* The pair of integer scores the API keeps answering with.
SteadyPair ==
    LET v == CHOOSE w \in apiScores : TRUE
    IN  <<MathFloor(v), MathFloor(v)>>

\* Cache and chain both hold the pair, and no call is in flight.
Converged ==
    /\ <<lastKnownBlackSwanScore, lastKnownMarketPeakScore>> = SteadyPair
    /\ <<chain.blackSwanScore, chain.marketPeakScore>> = SteadyPair
    /\ pending = {}

\* C32 as stated: when the API keeps answering with one valid pair, every
\* fetch, upload and transaction succeeds and the timer keeps firing,
\* eventually the cached scores and the scores on chain both equal that
\* pair, and from then on no oracle transaction is submitted.
C32_ConvergesToUpstream == <>[]Converged

----------------------------------------------------------------------------
\* Cycle c is invoked in this step by the timer or by POST /update.
Invoked(c) ==
    /\ cycles[c].pc = "new"
    /\ cycles'[c].pc = "fetch"
    /\ cycles'[c].origin # "start"

\* Cycle c returns in this step having fetched and found neither score
\* changed.
ReturnsUnchanged(c) ==
    /\ cycles[c].pc = "fetch"
    /\ cycles'[c].pc = "done"
    /\ lastLog' = "nochange"

\* C33: a cycle that fetches successfully and finds neither score changed
\* modifies only lastUpdate.  Its synchronous head stores lastUpdate and
\* nothing else of ServiceStatus, and the step in which it returns leaves
\* the cache, the chain and every field of ServiceStatus unchanged; and
\* isHealthy goes from false to true only in start() or in the step in
\* which a cycle's transaction is confirmed.
C33_NoChangeCycleTouchesOnlyLastUpdate ==
    /\ [][\A c \in Cycles :
             /\ Invoked(c) =>
                   /\ serviceStatus' = [serviceStatus EXCEPT !.lastUpdate = Date]
                   /\ UNCHANGED <<cacheVars, chain, pending>>
             /\ ReturnsUnchanged(c) =>
                   UNCHANGED <<cacheVars, serviceStatus, chain, pending>>]_vars
    /\ [][(~serviceStatus.isHealthy /\ serviceStatus'.isHealthy) =>
             \/ startPc = "idle" /\ startPc' = "initial"
             \/ \E c \in Cycles : Confirmed(c)]_vars

\* After one confirmed update and one failure a cycle has returned on
\* unchanged scores, and the service is still unhealthy with its counters
\* as the failure left them.
C33_Witness ==
    /\ lastLog = "nochange"
    /\ nextCycle > MaxCycles
    /\ InFlight = {}
    /\ ~serviceStatus.isHealthy
    /\ serviceStatus.errorCount = 1
    /\ serviceStatus.updateCount = 1
    /\ serviceStatus.lastUpdate = Date
    /\ CacheSet

----------------------------------------------------------------------------
\* C34 as stated: whenever ServiceStatus.status is "stopped", isHealthy is
\* false, also when a cycle that was in flight when stop() was called
\* completes after stop() has returned.
C34_StoppedIsUnhealthy ==
    serviceStatus.status = "stopped" => ~serviceStatus.isHealthy

----------------------------------------------------------------------------
\* Cycle c is invoked in this step by a timer.
TimerStarts(c) ==
    /\ cycles[c].pc = "new"
    /\ cycles'[c].pc = "fetch"
    /\ cycles'[c].origin = "timer"

\* C35: once stop() has been called, and until a later start(), the
\* polling timer starts no cycle.  isRunning is false from the call of
\* stop() to the next call of start(), and a timer starts a cycle only
\* in a state in which isRunning is true; this also when stop() was called
\* while start() awaited its initial check and the timer was created
\* afterwards.
C35_NoTimerCycleAfterStop ==
    /\ [][(stopPc # "closing" /\ stopPc' = "closing") => ~isRunning']_vars
    /\ [][(~isRunning /\ isRunning') =>
             (startPc # "initial" /\ startPc' = "initial")]_vars
    /\ [][\A c \in Cycles : TimerStarts(c) => isRunning]_vars

\* stop() was called while start() awaited its initial check and has
\* returned; start() has then created the timer, which is live while the
\* service is not running, and no cycle is in flight.
C35_Witness ==
    /\ stopPc = "done"
    /\ startPc = "done"
    /\ intervalId
    /\ ~isRunning
    /\ serviceStatus.status = "stopped"
    /\ nextCycle = 2
    /\ InFlight = {}

----------------------------------------------------------------------------
\* The number of live polling timers.
LiveTimers == (IF intervalId THEN 1 ELSE 0) + strayTimers

\* C36 as stated: for any interleaving of calls of start() and stop() at
\* most one polling timer is live, and none is live once stop() has
\* returned and start() has not been called again; start() while the
\* service runs and stop() while it does not run change nothing.
C36_OneTimerNoneAfterStop ==
    /\ [](LiveTimers <= 1)
    /\ []((stopPc = "done" /\ ~isRunning) => LiveTimers = 0)
    /\ [][(CallStart /\ isRunning) => UNCHANGED vars]_vars
    /\ [][(CallStop /\ ~isRunning) => UNCHANGED vars]_vars

----------------------------------------------------------------------------
\* The cache is wholly unset or wholly set: both scores and, in the
\* content-publishing service, both references.
AllOrNothing ==
    /\ lastKnownBlackSwanScore = null <=> lastKnownMarketPeakScore = null
    /\ svc = "content" =>
          /\ lastKnownBlackSwanIPFS = null <=> lastKnownBlackSwanScore = null
          /\ lastKnownMarketPeakIPFS = null <=> lastKnownBlackSwanScore = null
    /\ svc = "score" =>
          /\ lastKnownBlackSwanIPFS = null
          /\ lastKnownMarketPeakIPFS = null

\* C37: the cache is all-or-nothing in every reachable state.  The cached
\* BlackSwan score is unset exactly when the cached MarketPeak score is,
\* in the content-publishing service both references are unset exactly
\* when the scores are, and no step takes a cached score or reference
\* that is set back to unset.
C37_CacheAllOrNothing ==
    /\ []AllOrNothing
    /\ [][\A i \in 1 .. 4 : cacheVars[i] # null => cacheVars'[i] # null]_vars

\* The content-publishing service has committed twice: the cache is wholly
\* set, with the references of a later cycle than the first.
C37_Witness ==
    /\ svc = "content"
    /\ serviceStatus.updateCount = 2
    /\ CacheSet
    /\ lastKnownBlackSwanIPFS # null
    /\ lastKnownMarketPeakIPFS # null
    /\ lastKnownBlackSwanIPFS # BlackSwanRef(1)

----------------------------------------------------------------------------
\* The outcomes serviceStatus has counted.
Counted(st) == st.updateCount + st.errorCount

\* Cycle c returns in this step.
Returns(c) == cycles[c].pc \notin {"new", "done"} /\ cycles'[c].pc = "done"

\* C38: the counters account for the cycles exactly.  updateCount is zero
\* before the first cycle and grows by one in exactly the steps in which a
\* transaction of the service is confirmed with success status, so it
\* equals the number of such transactions; errorCount and updateCount
\* never decrease; updateCount + errorCount grows by at most one in a step,
\* only in a step in which one cycle returns, and a cycle returns once;
\* lastSuccessfulUpdate is set exactly when updateCount > 0.
C38_CountersAccountForCycles ==
    /\ [](/\ serviceStatus.lastSuccessfulUpdate # null
                <=> serviceStatus.updateCount > 0
          /\ nextCycle = 1 => Counted(serviceStatus) = 0)
    /\ [][/\ serviceStatus'.updateCount = serviceStatus.updateCount
                + Cardinality({c \in Cycles : Confirmed(c)})
          /\ serviceStatus'.errorCount >= serviceStatus.errorCount
          /\ Counted(serviceStatus') <= Counted(serviceStatus) + 1
          /\ Counted(serviceStatus') > Counted(serviceStatus) =>
                Cardinality({c \in Cycles : Returns(c)}) = 1
          /\ \A c \in Cycles :
                cycles[c].pc = "done" => cycles'[c].pc = "done"]_vars

\* Three cycles have returned: one with a confirmed transaction, one that
\* failed and was counted as an error, and one that changed no counter.
C38_Witness ==
    /\ \A c \in Cycles : cycles[c].pc = "done"
    /\ serviceStatus.updateCount = 1
    /\ serviceStatus.errorCount = 1
    /\ serviceStatus.lastSuccessfulUpdate # null

============================================================================
